---- MODULE Spec2Model ----
(***************************************************************************)
(* State-machine model of the three notification relays of the repository: *)
(*   router  = src/04.sendKeyLockStatus.py       (upper lock + routing)     *)
(*   bottom  = src/02.sendKeyLockStatusBottom.py (bottom lock)              *)
(*   sensor  = src/03.sendTemperaturHumidity.py  (scheduled sensor poll)    *)
(* Python dicts are functions whose DOMAIN is the set of keys present.      *)
(* Python strings that the code takes apart (timestamps, bodies, ARNs,      *)
(* URLs, comma separated lists) are sequences of their pieces.              *)
(***************************************************************************)
EXTENDS Integers, Sequences, FiniteSets, TLC

VARIABLES env, inv, queue, now, trial

vars == <<env, inv, queue, now, trial>>

(***************************************************************************)
(* Bounds of the model.                                                    *)
(***************************************************************************)
\* the clock runs from MaxTime - 1 up to MaxTime
MaxTime == 3
\* longest X-Timestamp header value, in characters
MaxTsLen == 2
\* longest signed request body, in characters
MaxBodyLen == 1
\* MAX_REQUEST_AGE is read from the configuration (default 300 s); scaled
MAX_REQUEST_AGE == 2

(***************************************************************************)
(* Python values.                                                          *)
(***************************************************************************)
None == "<None>"

\* None where a string (a sequence of pieces) is expected
NoneStr == <<None>>

EmptyDict == [k \in {} |-> None]

Has(d, k) == k \in DOMAIN d

\* dict.get(k, default)
Get(d, k, default) == IF k \in DOMAIN d THEN d[k] ELSE default

\* `not s` for an optional atomic string, and for an optional string of pieces
Falsy(s) == s = None \/ s = ""

FalsyStr(s) == s = NoneStr \/ s = <<>>

Range(s) == {s[i] : i \in DOMAIN s}

\* `sub in s` for strings given as sequences of pieces
Contains(s, sub) ==
    \E i \in 0..(Len(s) - Len(sub)) :
        \A j \in 1..Len(sub) : s[i + j] = sub[j]

\* s.startswith(prefix)
StartsWith(s, prefix) ==
    /\ Len(s) >= Len(prefix)
    /\ \A j \in 1..Len(prefix) : s[j] = prefix[j]

\* all sequences over S of length at most n
RECURSIVE SeqsUpTo(_, _)
SeqsUpTo(S, n) ==
    IF n = 0 THEN {<<>>}
    ELSE LET shorter == SeqsUpTo(S, n - 1)
         IN  shorter \cup {Append(s, c) : s \in shorter, c \in S}

(***************************************************************************)
(* str.strip() and int(str) on strings given as sequences of characters.   *)
(***************************************************************************)
Space == " "

RECURSIVE LStrip(_)
LStrip(s) == IF s # <<>> /\ Head(s) = Space THEN LStrip(Tail(s)) ELSE s

RECURSIVE RStrip(_)
RStrip(s) ==
    IF s # <<>> /\ s[Len(s)] = Space THEN RStrip(SubSeq(s, 1, Len(s) - 1)) ELSE s

Strip(s) == RStrip(LStrip(s))

Digits == {"0", "1", "2", "3", "4", "5", "6", "7", "8", "9"}

DigitVal(c) ==
    CASE c = "0" -> 0 [] c = "1" -> 1 [] c = "2" -> 2 [] c = "3" -> 3
      [] c = "4" -> 4 [] c = "5" -> 5 [] c = "6" -> 6 [] c = "7" -> 7
      [] c = "8" -> 8 [] c = "9" -> 9

\* int(s) raises ValueError unless the stripped text is a run of digits
IntParses(s) ==
    LET t == Strip(s)
    IN  t # <<>> /\ \A i \in 1..Len(t) : t[i] \in Digits

RECURSIVE DecimalValue(_)
DecimalValue(t) ==
    IF t = <<>> THEN 0
    ELSE 10 * DecimalValue(SubSeq(t, 1, Len(t) - 1)) + DigitVal(t[Len(t)])

IntOf(s) == DecimalValue(Strip(s))

Abs(x) == IF x < 0 THEN -x ELSE x

(***************************************************************************)
(* Request authenticity checks of the bottom-lock unit.                    *)
(***************************************************************************)
\* hmac.new(secret, message, sha256).hexdigest(): an ideal MAC, one digest
\* per (key, message) pair and never the empty string
Hmac(secret_key, message) == <<secret_key>> \o message

\* lines 78-84: the digest expected for the request
expected_signature(timestamp, body, secret_key) ==
    Hmac(secret_key, timestamp \o body)

\* faulty variant: the age of the request is not examined
verify_request_signature_no_age(event, secret_key, current_time) ==
    LET headers            == Get(event, "headers", EmptyDict)
        received_signature == Get(headers, "X-Signature", NoneStr)
        timestamp          == Get(headers, "X-Timestamp", NoneStr)
        body               == Get(event, "body", <<>>)
    IN  IF FalsyStr(received_signature) \/ FalsyStr(timestamp)
          THEN FALSE
        ELSE IF ~IntParses(timestamp) THEN FALSE
        ELSE received_signature = expected_signature(timestamp, body, secret_key)

\* faulty variant: the digests are not compared
verify_request_signature_no_compare(event, secret_key, current_time) ==
    LET headers            == Get(event, "headers", EmptyDict)
        received_signature == Get(headers, "X-Signature", NoneStr)
        timestamp          == Get(headers, "X-Timestamp", NoneStr)
    IN  IF FalsyStr(received_signature) \/ FalsyStr(timestamp)
          THEN FALSE
        ELSE IF ~IntParses(timestamp) THEN FALSE
        ELSE Abs(current_time - IntOf(timestamp)) <= MAX_REQUEST_AGE

verify_request_signature(event, secret_key, current_time) ==
    LET headers            == Get(event, "headers", EmptyDict)
        received_signature == Get(headers, "X-Signature", NoneStr)
        timestamp          == Get(headers, "X-Timestamp", NoneStr)
        body               == Get(event, "body", <<>>)
    IN  IF FalsyStr(received_signature) \/ FalsyStr(timestamp)
          THEN FALSE
        ELSE IF ~IntParses(timestamp) THEN FALSE
        ELSE IF Abs(current_time - IntOf(timestamp)) > MAX_REQUEST_AGE THEN FALSE
        ELSE received_signature = expected_signature(timestamp, body, secret_key)

\* line 18: ALLOWED_SOURCE_IPS, the comma separated fields of the variable,
\* or the empty list when it is unset or empty
EmptyString == << <<>> >>

ALLOWED_SOURCE_IPS(osenv) ==
    LET raw == Get(osenv, "ALLOWED_SOURCE_IPS", EmptyString)
    IN  IF raw = EmptyString THEN <<>> ELSE raw

\* faulty variant: a request that names no source IP at all is let through
verify_source_ip_unknown_ok(event, allowed) ==
    IF allowed = <<>> \/ allowed = EmptyString THEN TRUE
    ELSE
      LET rc_ip == IF Has(event, "requestContext")
                     THEN Get(Get(event["requestContext"], "identity", EmptyDict),
                              "sourceIp", NoneStr)
                     ELSE NoneStr
          source_ip ==
              IF FalsyStr(rc_ip) /\ Has(event, "headers")
                THEN Strip(Head(Get(event["headers"], "X-Forwarded-For", EmptyString)))
                ELSE rc_ip
      IN  FalsyStr(source_ip) \/ source_ip \in Range(allowed)

\* faulty variant: a listed X-Forwarded-For entry is enough, whatever the
\* requestContext says
verify_source_ip_either(event, allowed) ==
    IF allowed = <<>> \/ allowed = EmptyString THEN TRUE
    ELSE
      LET rc_ip == IF Has(event, "requestContext")
                     THEN Get(Get(event["requestContext"], "identity", EmptyDict),
                              "sourceIp", NoneStr)
                     ELSE NoneStr
          fwd == IF Has(event, "headers")
                   THEN Strip(Head(Get(event["headers"], "X-Forwarded-For", EmptyString)))
                   ELSE NoneStr
      IN  \/ ~FalsyStr(rc_ip) /\ rc_ip \in Range(allowed)
          \/ ~FalsyStr(fwd) /\ fwd \in Range(allowed)

\* faulty variant: X-Forwarded-For is read before requestContext
verify_source_ip_header_first(event, allowed) ==
    IF allowed = <<>> \/ allowed = EmptyString THEN TRUE
    ELSE
      LET fwd == IF Has(event, "headers")
                   THEN Strip(Head(Get(event["headers"], "X-Forwarded-For", EmptyString)))
                   ELSE NoneStr
          source_ip ==
              IF FalsyStr(fwd) /\ Has(event, "requestContext")
                THEN Get(Get(event["requestContext"], "identity", EmptyDict),
                         "sourceIp", NoneStr)
                ELSE fwd
      IN  ~FalsyStr(source_ip) /\ source_ip \in Range(allowed)

verify_source_ip(event, allowed) ==
    IF allowed = <<>> \/ allowed = EmptyString THEN TRUE
    ELSE
      LET rc_ip == IF Has(event, "requestContext")
                     THEN Get(Get(event["requestContext"], "identity", EmptyDict),
                              "sourceIp", NoneStr)
                     ELSE NoneStr
          source_ip ==
              IF FalsyStr(rc_ip) /\ Has(event, "headers")
                THEN Strip(Head(Get(event["headers"], "X-Forwarded-For", EmptyString)))
                ELSE rc_ip
      IN  ~FalsyStr(source_ip) /\ source_ip \in Range(allowed)

LambdaArnPrefix == <<"arn:aws:lambda:">>

BottomRole == <<"role-SendKeyStatusToDiscord">>

SensorRole == <<"role-SendTemperatureHumiditytoDiscord">>

\* lines 135-143: the part of verify_iam_permissions before the STS call
iam_context_ok(context) ==
    /\ Has(context, "invoked_function_arn")
    /\ StartsWith(context["invoked_function_arn"], LambdaArnPrefix)

\* lines 146-161: the STS call and the role check; sts is the call's outcome
iam_role_ok(sts) ==
    /\ ~sts.err
    /\ Contains(Get(sts.identity, "Arn", <<>>), BottomRole)

verify_iam_permissions(context, sts) ==
    iam_context_ok(context) /\ iam_role_ok(sts)


\* faulty variant: the signature check is never run
authorization_checks_unsigned(event, context, sts, osenv, current_time) ==
    LET iam == [check |-> "iam", ok |-> verify_iam_permissions(context, sts)]
        ip  == [check |-> "ip",
                ok    |-> verify_source_ip(event, ALLOWED_SOURCE_IPS(osenv))]
    IN  IF ~iam.ok THEN <<iam>> ELSE <<iam, ip>>

\* faulty variant: every check is evaluated, whatever the earlier ones said
authorization_checks_all(event, context, sts, osenv, current_time) ==
    LET webhook_secret == Get(osenv, "WEBHOOK_SECRET", None)
    IN  << [check |-> "iam", ok |-> verify_iam_permissions(context, sts)],
           [check |-> "ip",
            ok    |-> verify_source_ip(event, ALLOWED_SOURCE_IPS(osenv))],
           [check |-> "signature",
            ok    |-> verify_request_signature(event, webhook_secret, current_time)] >>

\* lines 170-187: the checks in the order the code runs them, each with its
\* result, up to and including the first that fails
authorization_checks(event, context, sts, osenv, current_time) ==
    LET webhook_secret == Get(osenv, "WEBHOOK_SECRET", None)
        iam == [check |-> "iam", ok |-> verify_iam_permissions(context, sts)]
        ip  == [check |-> "ip",
                ok    |-> verify_source_ip(event, ALLOWED_SOURCE_IPS(osenv))]
        sig == [check |-> "signature",
                ok    |-> verify_request_signature(event, webhook_secret, current_time)]
    IN  IF ~iam.ok THEN <<iam>>
        ELSE IF ~ip.ok THEN <<iam, ip>>
        ELSE IF Falsy(webhook_secret) THEN <<iam, ip>>
        ELSE <<iam, ip, sig>>

perform_authorization_checks(event, context, sts, osenv, current_time) ==
    LET checks == authorization_checks(event, context, sts, osenv, current_time)
    IN  \A i \in DOMAIN checks : checks[i].ok

(***************************************************************************)
(* Configuration validation.  A URL is the sequence of its pieces, e.g.    *)
(* <<"https", "://", "discord.com", "/api/webhooks/", "1/tok">>.           *)
(***************************************************************************)
SchemeSep == "://"

\* pieces that begin a path
PathStarts == {"/api/webhooks/", "/other/"}

RECURSIVE FirstPathIndex(_, _)
FirstPathIndex(pieces, i) ==
    IF i > Len(pieces) THEN i
    ELSE IF pieces[i] \in PathStarts THEN i
    ELSE FirstPathIndex(pieces, i + 1)

\* urllib.parse.urlparse(url): scheme, netloc and path of the URL
urlparse(url) ==
    IF Len(url) >= 2 /\ url[2] = SchemeSep
      THEN LET k == FirstPathIndex(url, 3)
           IN  [scheme |-> url[1],
                netloc |-> SubSeq(url, 3, k - 1),
                path   |-> SubSeq(url, k, Len(url))]
      ELSE [scheme |-> "", netloc |-> <<>>, path |-> url]

is_valid_discord_webhook_url(url) ==
    LET parsed == urlparse(url)
    IN  /\ parsed.scheme = "https"
        /\ Contains(parsed.netloc, <<"discord.com">>)
        /\ Contains(parsed.path, <<"/api/webhooks/">>)

is_valid_https_url(url) ==
    LET parsed == urlparse(url)
    IN  parsed.scheme = "https" /\ parsed.netloc # <<>>

\* the required variables that are unset, empty or blank
missing_vars(osenv, required_vars) ==
    { var \in required_vars :
        LET value == Get(osenv, var, NoneStr)
        IN  FalsyStr(value) \/ Strip(value) = <<>> }

\* validate_environment_variables of the two lock units: TRUE when it
\* returns, FALSE when it raises ValueError
validate_environment_variables(osenv) ==
    /\ missing_vars(osenv, {"URL", "USER_ID"}) = {}
    /\ is_valid_discord_webhook_url(osenv["URL"])

\* validate_environment_variables of the sensor unit
sensor_validate_environment_variables(osenv) ==
    /\ missing_vars(osenv, {"DEVICE_ID", "TOKEN", "SECRET", "SWITCHBOT",
                            "DISCORD", "USER_ID"}) = {}
    /\ is_valid_https_url(osenv["SWITCHBOT"])
    /\ is_valid_https_url(osenv["DISCORD"])

(***************************************************************************)
(* Event validation.  A JSON value is a record [t, v]: its Python type and *)
(* its value.                                                              *)
(***************************************************************************)
PyInt(n) == [t |-> "int", v |-> n]

PyStr(s) == [t |-> "str", v |-> s]

PyDict(d) == [t |-> "dict", v |-> d]

PyNone == [t |-> "NoneType", v |-> None]

IsNumber(x) == x.t \in {"int", "float"}

\* lines 49-55 of the router; the labels are written in ASCII:
\* "ue no kagi" is the upper-lock label, "shita no kagi" the bottom-lock one
DEVICE_TYPES ==
    [WoLockPro |-> "ue no kagi", WoLock |-> "shita no kagi", WoHub2 |-> "switch hub"]

\* faulty variant: every known device type is held to the lock fields
ALLOWED_DEVICE_TYPES_all == DOMAIN DEVICE_TYPES

ALLOWED_DEVICE_TYPES == {"WoLockPro", "WoLock"}

Raised(exc) == [exc |-> exc, value |-> EmptyDict]

Returned(value) == [exc |-> "", value |-> value]

\* the checks both lock units make on battery and lockState
\* faulty variant: an empty lockState is accepted
lock_fields_error_blank_state(context_data) ==
    IF ~Has(context_data, "battery") \/ ~Has(context_data, "lockState")
      THEN TRUE
    ELSE LET battery    == context_data["battery"]
             lock_state == context_data["lockState"]
         IN  \/ ~IsNumber(battery)
             \/ (IsNumber(battery) /\ (battery.v < 0 \/ battery.v > 100))
             \/ lock_state.t # "str"

\* faulty variant: a battery of 101 is accepted
lock_fields_error_open_range(context_data) ==
    IF ~Has(context_data, "battery") \/ ~Has(context_data, "lockState")
      THEN TRUE
    ELSE LET battery    == context_data["battery"]
             lock_state == context_data["lockState"]
         IN  \/ ~IsNumber(battery)
             \/ (IsNumber(battery) /\ (battery.v < 0 \/ battery.v > 101))
             \/ lock_state.t # "str"
             \/ (lock_state.t = "str" /\ Strip(lock_state.v) = <<>>)

lock_fields_error(context_data) ==
    IF ~Has(context_data, "battery") \/ ~Has(context_data, "lockState")
      THEN TRUE
    ELSE LET battery    == context_data["battery"]
             lock_state == context_data["lockState"]
         IN  \/ ~IsNumber(battery)
             \/ (IsNumber(battery) /\ (battery.v < 0 \/ battery.v > 100))
             \/ lock_state.t # "str"
             \/ (lock_state.t = "str" /\ Strip(lock_state.v) = <<>>)

\* json.loads(text): a request body is [kind, value]; kind "json" is JSON
\* text that decodes to value, "garbage" is text that is not JSON, and
\* "object" is a body that is no string at all
json_loads(raw) ==
    CASE raw.kind = "json"    -> Returned(raw.value)
      [] raw.kind = "garbage" -> Raised("JSONDecodeError")
      [] raw.kind = "object"  -> Raised("TypeError")

\* validate_event_data of the router: the decoded body, or the exception
router_validate_event_data(event) ==
    IF ~Has(event, "body") THEN Raised("ValueError")
    ELSE
      LET decoded == json_loads(event["body"])
      IN  IF decoded.exc = "JSONDecodeError" THEN Raised("ValueError")
          ELSE IF decoded.exc # "" THEN Raised(decoded.exc)
          ELSE
            LET body == decoded.value
            IN  IF body.t # "dict" THEN Raised("ValueError")
                ELSE IF ~Has(body.v, "context") THEN Raised("ValueError")
                ELSE IF body.v["context"].t # "dict" THEN Raised("ValueError")
                ELSE
                  LET context_data == body.v["context"].v
                  IN  IF ~Has(context_data, "deviceType") THEN Raised("ValueError")
                      ELSE IF context_data["deviceType"].t # "str"
                              \/ context_data["deviceType"].v \notin DOMAIN DEVICE_TYPES
                        THEN Raised("ValueError")
                      ELSE IF context_data["deviceType"].v \in ALLOWED_DEVICE_TYPES
                              /\ lock_fields_error(context_data)
                        THEN Raised("ValueError")
                      ELSE Returned(body)

\* validate_event_data of the bottom-lock unit: context_data, or the exception
bottom_validate_event_data(event) ==
    IF ~Has(event, "context") THEN Raised("ValueError")
    ELSE IF event["context"].t # "dict" THEN Raised("ValueError")
    ELSE IF lock_fields_error(event["context"].v) THEN Raised("ValueError")
    ELSE Returned(event["context"].v)

\* validate_lambda_context: TRUE when it returns the ARN, FALSE when it raises
validate_lambda_context(context) ==
    /\ Has(context, "invoked_function_arn")
    /\ context["invoked_function_arn"] # <<>>
    /\ StartsWith(context["invoked_function_arn"], LambdaArnPrefix)

(***************************************************************************)
(* Inputs of the authenticity checks.                                      *)
(***************************************************************************)
TsChars == {"0", "1", Space, "a"}

BodyChars == {"0", "a"}

Timestamps == SeqsUpTo(TsChars, MaxTsLen)

Bodies == SeqsUpTo(BodyChars, MaxBodyLen)

Secrets == {"s1", "s2"}

IpA == <<"10.0.0.1">>

IpB == <<"10.0.0.2">>

IpC == <<"192.168.0.9">>

SignedRequest(timestamp, body, secret_key) ==
    [headers |-> ("X-Signature" :> expected_signature(timestamp, body, secret_key))
                   @@ ("X-Timestamp" :> timestamp),
     body    |-> body]

Units == {"router", "bottom", "sensor"}

BlankInv ==
    [pc |-> "idle", unit |-> "", event |-> EmptyDict, context |-> EmptyDict,
     osenv |-> EmptyDict, calls |-> <<>>, stages |-> <<>>, status |-> 0,
     body |-> EmptyDict, local |-> EmptyDict, auth |-> "none",
     origin |-> "", posts |-> <<>>,
     forwarded |-> <<>>, wrote |-> <<>>]

NoTrial == [kind |-> "none"]

(***************************************************************************)
(* SpecSig: a client signs a request, the request is verified, and then    *)
(* one of its signature, body or timestamp is replaced and it is verified  *)
(* again.  The clock may advance at any moment.                            *)
(***************************************************************************)
InitSig ==
    /\ env = EmptyDict
    /\ inv = BlankInv
    /\ queue = <<>>
    /\ now = MaxTime - 1
    /\ \E timestamp \in Timestamps, body \in Bodies, secret_key \in Secrets :
         trial = [kind     |-> "sig",
                  event    |-> SignedRequest(timestamp, body, secret_key),
                  secret   |-> secret_key,
                  tampered |-> "none",
                  verdict  |-> "pending",
                  at       |-> 0]

SigVerify ==
    /\ trial.kind = "sig"
    /\ trial.verdict = "pending"
    /\ trial' = [trial EXCEPT
                   !.verdict = IF verify_request_signature(trial.event, trial.secret, now)
                                 THEN "accepted" ELSE "rejected",
                   !.at = now]
    /\ UNCHANGED <<env, inv, queue, now>>

\* digests an attacker can put in place of the right one
OtherSignatures(event, secret_key) ==
    LET timestamp == event["headers"]["X-Timestamp"]
    IN  { <<>>, <<"garbage">>, Hmac(secret_key, timestamp),
          Hmac(secret_key, event["body"] \o timestamp) }
          \cup { Hmac(k, timestamp \o event["body"]) : k \in Secrets }

TamperSignature ==
    /\ trial.kind = "sig" /\ trial.verdict # "pending" /\ trial.tampered = "none"
    /\ \E sig \in OtherSignatures(trial.event, trial.secret) :
         /\ sig # trial.event["headers"]["X-Signature"]
         /\ trial' = [trial EXCEPT !.event.headers["X-Signature"] = sig,
                                   !.tampered = "signature", !.verdict = "pending"]
    /\ UNCHANGED <<env, inv, queue, now>>

TamperBody ==
    /\ trial.kind = "sig" /\ trial.verdict # "pending" /\ trial.tampered = "none"
    /\ \E body \in Bodies :
         /\ body # trial.event["body"]
         /\ trial' = [trial EXCEPT !.event.body = body,
                                   !.tampered = "body", !.verdict = "pending"]
    /\ UNCHANGED <<env, inv, queue, now>>

TamperTimestamp ==
    /\ trial.kind = "sig" /\ trial.verdict # "pending" /\ trial.tampered = "none"
    /\ \E timestamp \in Timestamps :
         /\ timestamp # trial.event["headers"]["X-Timestamp"]
         /\ trial' = [trial EXCEPT !.event.headers["X-Timestamp"] = timestamp,
                                   !.tampered = "timestamp", !.verdict = "pending"]
    /\ UNCHANGED <<env, inv, queue, now>>

Tick ==
    /\ now < MaxTime
    /\ now' = now + 1
    /\ UNCHANGED <<env, inv, queue, trial>>

NextSig == SigVerify \/ TamperSignature \/ TamperBody \/ TamperTimestamp \/ Tick

SpecSig == InitSig /\ [][NextSig]_vars

\* the request's timestamp is an integer within MAX_REQUEST_AGE of the time
\* of verification
TrialFresh ==
    LET timestamp == trial.event["headers"]["X-Timestamp"]
    IN  /\ IntParses(timestamp)
        /\ trial.at - IntOf(timestamp) <= MAX_REQUEST_AGE
        /\ IntOf(timestamp) - trial.at <= MAX_REQUEST_AGE

\* C7 (as stated): a request signed over timestamp||body with the secret
\* always verifies, and a request with one of signature, body or timestamp
\* replaced never does.
C7_Original ==
    (trial.kind = "sig" /\ trial.verdict # "pending") =>
        /\ trial.tampered = "none" => trial.verdict = "accepted"
        /\ trial.tampered # "none" => trial.verdict = "rejected"

\* C7 (amended): a request signed over timestamp||body with the secret
\* verifies when its timestamp is an integer within MAX_REQUEST_AGE of the
\* current time (and only then); a request with one of signature, body or
\* timestamp replaced never verifies.
C7_SignatureRoundTrip ==
    (trial.kind = "sig" /\ trial.verdict # "pending") =>
        /\ trial.tampered = "none" => (trial.verdict = "accepted" <=> TrialFresh)
        /\ trial.tampered # "none" => trial.verdict = "rejected"

\* a fresh, correctly signed request was accepted, its timestamp was replaced
\* by another fresh one, and the result was rejected
C7_Witness ==
    /\ trial.kind = "sig"
    /\ trial.tampered = "timestamp"
    /\ trial.verdict = "rejected"
    /\ TrialFresh

(***************************************************************************)
(* SpecAuthz: one request is put to perform_authorization_checks of the    *)
(* bottom-lock unit; the same request may be sent again later (a replay).  *)
(***************************************************************************)
RequestContexts ==
    { [identity |-> EmptyDict] }
      \cup { [identity |-> [sourceIp |-> ip]] : ip \in {<<>>, IpA, IpC} }

ForwardedFors == { EmptyString, <<IpA>>, <<IpC, IpA>>, << <<Space>> \o IpA, IpC >> }

AuthzSecret == "s1"

AuthzBody == <<"a">>

AuthzTimestamps == { <<"0">>, <<"1">>, <<"1", "1">>, <<"a">> }

AuthzSignatures(timestamp) ==
    { expected_signature(timestamp, AuthzBody, AuthzSecret), <<"garbage">> }

\* a dict with the entries of d whose key is in keys
Restrict(d, keys) == [k \in keys |-> d[k]]

HeaderDicts ==
    LET full(fwd, sig, timestamp) ==
            ("X-Forwarded-For" :> fwd) @@ ("X-Signature" :> sig)
              @@ ("X-Timestamp" :> timestamp)
    IN  { Restrict(full(fwd, sig, timestamp), keys) :
            fwd \in ForwardedFors,
            sig \in UNION {AuthzSignatures(t) : t \in {<<"0">>, <<"1">>}},
            timestamp \in AuthzTimestamps,
            keys \in { {}, {"X-Forwarded-For"}, {"X-Signature", "X-Timestamp"},
                       {"X-Signature"},
                       {"X-Forwarded-For", "X-Signature", "X-Timestamp"} } }

AuthzEvents ==
    LET full(rc, headers) ==
            [requestContext |-> rc, headers |-> headers, body |-> AuthzBody]
    IN  { Restrict(full(rc, headers), keys) :
            rc \in RequestContexts, headers \in HeaderDicts,
            keys \in { {"body"}, {"headers", "body"},
                       {"requestContext", "headers", "body"} } }

GoodArn == LambdaArnPrefix \o <<"ap-northeast-1:1:function:f">>

LambdaContexts ==
    { EmptyDict, [invoked_function_arn |-> GoodArn],
      [invoked_function_arn |-> <<"arn:aws:s3:", "bucket">>] }

StsOutcomes(role) ==
    { [err |-> TRUE, identity |-> EmptyDict],
      [err |-> FALSE, identity |-> EmptyDict],
      [err |-> FALSE, identity |-> [Arn |-> <<"arn:aws:sts::1:assumed-role/">> \o role \o <<"/f">>]],
      [err |-> FALSE, identity |-> [Arn |-> <<"arn:aws:sts::1:assumed-role/", "role-Other", "/f">>]] }

AuthzEnvs ==
    LET full(secret, allowed) ==
            [WEBHOOK_SECRET |-> secret, ALLOWED_SOURCE_IPS |-> allowed]
    IN  { Restrict(full(secret, allowed), keys) :
            secret \in {"", AuthzSecret},
            allowed \in {EmptyString, <<IpA>>, <<IpA, IpB>>},
            keys \in { {}, {"WEBHOOK_SECRET"}, {"ALLOWED_SOURCE_IPS"},
                       {"WEBHOOK_SECRET", "ALLOWED_SOURCE_IPS"} } }

InitAuthz ==
    /\ env = EmptyDict
    /\ inv = BlankInv
    /\ queue = <<>>
    /\ now = MaxTime - 1
    /\ \E event \in AuthzEvents, context \in LambdaContexts,
          sts \in StsOutcomes(BottomRole), osenv \in AuthzEnvs :
         trial = [kind    |-> "authz",
                  event   |-> event,
                  context |-> context,
                  sts     |-> sts,
                  osenv   |-> osenv,
                  checks  |-> <<>>,
                  verdict |-> "pending",
                  at      |-> 0]

AuthzCheck ==
    /\ trial.kind = "authz"
    /\ trial.verdict = "pending"
    /\ trial' = [trial EXCEPT
                   !.checks = authorization_checks(trial.event, trial.context,
                                                   trial.sts, trial.osenv, now),
                   !.verdict = IF perform_authorization_checks(
                                     trial.event, trial.context, trial.sts,
                                     trial.osenv, now)
                                 THEN "accepted" ELSE "rejected",
                   !.at = now]
    /\ UNCHANGED <<env, inv, queue, now>>

AuthzReplay ==
    /\ trial.kind = "authz"
    /\ trial.verdict # "pending"
    /\ trial.at < now
    /\ trial' = [trial EXCEPT !.verdict = "pending", !.checks = <<>>]
    /\ UNCHANGED <<env, inv, queue, now>>

NextAuthz == AuthzCheck \/ AuthzReplay \/ Tick

SpecAuthz == InitAuthz /\ [][NextAuthz]_vars

\* the caller's IP as the authorizer is specified to take it: the request
\* context's sourceIp when present and non-empty, else the first entry of
\* the forwarded-for header
CallerIp(event) ==
    LET rc  == IF Has(event, "requestContext")
                 /\ Has(event["requestContext"], "identity")
                 /\ Has(event["requestContext"]["identity"], "sourceIp")
               THEN event["requestContext"]["identity"]["sourceIp"] ELSE <<>>
        fwd == IF Has(event, "headers") /\ Has(event["headers"], "X-Forwarded-For")
               THEN Strip(event["headers"]["X-Forwarded-For"][1]) ELSE <<>>
    IN  IF rc # <<>> THEN rc ELSE fwd

\* the configured allowlist: the entries of ALLOWED_SOURCE_IPS, none when the
\* variable is unset or empty
ConfiguredAllowlist(osenv) ==
    IF Has(osenv, "ALLOWED_SOURCE_IPS") /\ osenv["ALLOWED_SOURCE_IPS"] # EmptyString
      THEN Range(osenv["ALLOWED_SOURCE_IPS"]) ELSE {}

TrialChecked(name) == \E i \in DOMAIN trial.checks : trial.checks[i].check = name

TrialPassed(name) ==
    \E i \in DOMAIN trial.checks : trial.checks[i].check = name /\ trial.checks[i].ok

\* C5: with a non-empty allowlist a request whose source IP is absent or not
\* in the allowlist is rejected by authorization; with an empty allowlist the
\* source-IP check passes for every request that reaches it.
C5_IpAllowlist ==
    (trial.kind = "authz" /\ trial.verdict # "pending") =>
        LET allowlist == ConfiguredAllowlist(trial.osenv)
        IN  /\ (allowlist # {} /\ CallerIp(trial.event) \notin allowlist)
                 => (trial.verdict = "rejected" /\ ~TrialPassed("ip"))
            /\ (allowlist = {} /\ TrialChecked("ip")) => TrialPassed("ip")

\* a request from an unlisted IP passed the identity check and was rejected
\* at the source-IP check
C5_Witness ==
    /\ trial.kind = "authz"
    /\ trial.verdict = "rejected"
    /\ ConfiguredAllowlist(trial.osenv) # {}
    /\ CallerIp(trial.event) = IpC
    /\ TrialPassed("iam")
    /\ TrialChecked("ip")

TrialStale ==
    LET headers == Get(trial.event, "headers", EmptyDict)
    IN  /\ Has(headers, "X-Timestamp")
        /\ IntParses(headers["X-Timestamp"])
        /\ \/ trial.at - IntOf(headers["X-Timestamp"]) > MAX_REQUEST_AGE
           \/ IntOf(headers["X-Timestamp"]) - trial.at > MAX_REQUEST_AGE

\* C6 (as stated): a request whose timestamp is more than MAX_REQUEST_AGE
\* away from the current time is rejected, whatever its signature.
C6_Original ==
    (trial.kind = "authz" /\ trial.verdict # "pending" /\ TrialStale)
        => trial.verdict = "rejected"

\* C6 (amended): when a shared secret is configured, a request whose
\* timestamp is more than MAX_REQUEST_AGE away from the current time is
\* rejected, whatever its signature.
C6_StaleRejected ==
    (/\ trial.kind = "authz" /\ trial.verdict # "pending" /\ TrialStale
     /\ Has(trial.osenv, "WEBHOOK_SECRET") /\ trial.osenv["WEBHOOK_SECRET"] # "")
        => trial.verdict = "rejected"

\* a correctly signed request was accepted, then replayed after it had gone
\* stale, and rejected at the signature check
C6_Witness ==
    /\ trial.kind = "authz"
    /\ TrialStale
    /\ trial.verdict = "rejected"
    /\ TrialChecked("signature")
    /\ trial.event["headers"]["X-Signature"]
         = Hmac(trial.osenv["WEBHOOK_SECRET"],
                trial.event["headers"]["X-Timestamp"] \o trial.event["body"])

(***************************************************************************)
(* One invocation of a unit.  pc names the external call the handler is    *)
(* waiting for; calls lists the external calls made so far, stages the     *)
(* steps of the handler entered so far, posts the webhook messages         *)
(* delivered, forwarded the payloads accepted for the sibling unit and     *)
(* wrote the configuration records written.                                *)
(***************************************************************************)
NewInv(unit, event, context, osenv, origin) ==
    [BlankInv EXCEPT !.pc = "run", !.unit = unit, !.event = event,
                     !.context = context, !.osenv = osenv, !.origin = origin]

Stage(i, name) == [i EXCEPT !.stages = Append(@, name)]

Called(i, name, outcome) ==
    [i EXCEPT !.calls = Append(@, [call |-> name, outcome |-> outcome])]

Waiting(i, pc) == [i EXCEPT !.pc = pc]

Respond(i, status, body) == [i EXCEPT !.pc = "done", !.status = status, !.body = body]

\* the three error responses of the handlers
Forbidden(i) ==
    Respond([i EXCEPT !.auth = "denied"], 403, [error |-> "access denied"])

Authorized(i) == [i EXCEPT !.auth = "ok"]

\* faulty variant: the 400 response names the step that rejected the request
BadRequest_with_detail(i) ==
    Respond(i, 400, [error |-> "invalid request data",
                     detail |-> IF i.stages = <<>> THEN "" ELSE i.stages[Len(i.stages)]])

BadRequest(i) == Respond(i, 400, [error |-> "invalid request data"])

ServerError(i) == Respond(i, 500, [error |-> "internal server error"])

\* the sensor unit's 500 carries the time of the response
SensorError(i, t) ==
    Respond(i, 500, [error |-> "internal server error", timestamp |-> t])

\* the except clauses at the end of a lock unit's handler
\* faulty variant: only ValueError is caught, anything else escapes the handler
lock_handler_except_escape(i, exc) ==
    IF exc = "ValueError" THEN BadRequest(i) ELSE Waiting(i, "crashed")

lock_handler_except(i, exc) ==
    IF exc = "ValueError" THEN BadRequest(i) ELSE ServerError(i)

(***************************************************************************)
(* The lock units: code shared by router and bottom-lock unit.             *)
(***************************************************************************)
\* the handler from the environment lookups to the check_lambda_permissions
\* call
lock_read_state(i, context_data) ==
    Waiting([i EXCEPT !.local =
                [context_data      |-> context_data,
                 function_arn      |-> i.context["invoked_function_arn"],
                 discord_url       |-> i.osenv["URL"],
                 user_id           |-> i.osenv["USER_ID"],
                 current_key_state |-> Get(i.osenv, "KEY_STATE", <<>>)]],
            "probe")

\* the state-change check, and the handler up to the webhook POST
\* faulty variant: the battery value takes part in the state-change check
lock_dedupe_battery_too(i, key_type) ==
    LET lock_state == i.local.context_data["lockState"].v
        j == Stage([i EXCEPT !.local = [key_type |-> key_type] @@ @], "dedupe")
    IN  IF j.local.current_key_state = lock_state
           /\ i.local.context_data["battery"].v >= 50
          THEN Respond(j, 204, [message |-> "no state change",
                                current_state |-> lock_state])
        ELSE Waiting(Stage(j, "dispatch"), "post")

lock_dedupe(i, key_type) ==
    LET lock_state == i.local.context_data["lockState"].v
        j == Stage([i EXCEPT !.local = [key_type |-> key_type] @@ @], "dedupe")
    IN  IF j.local.current_key_state = lock_state
          THEN Respond(j, 204, [message |-> "no state change",
                                current_state |-> lock_state])
        ELSE Waiting(Stage(j, "dispatch"), "post")

\* check_lambda_permissions: every failure is raised as ValueError
check_lambda_permissions(outcome) ==
    IF outcome = "ok" THEN "" ELSE "ValueError"

\* the message send_discord_notification posts
\* faulty variant: the battery value is left out of the message
discord_payload_no_battery(user_id, key_type, lock_state, battery) ==
    [mention |-> user_id, key_type |-> key_type, lock_state |-> lock_state]

discord_payload(user_id, key_type, lock_state, battery) ==
    [mention |-> user_id, key_type |-> key_type, lock_state |-> lock_state,
     battery |-> battery]

\* send_discord_notification returned or raised (outcome), and the handler
\* up to the first call of update_function_environment
\* faulty variant: the commit follows a failed delivery too
lock_after_post_commit_anyway(i, outcome) ==
    LET j == Called(i, "post", outcome)
        sent == [url     |-> j.local.discord_url,
                 content |-> discord_payload(j.local.user_id, j.local.key_type,
                                             j.local.context_data["lockState"].v,
                                             j.local.context_data["battery"].v)]
    IN  Waiting(Stage(IF outcome = "ok" THEN [j EXCEPT !.posts = Append(@, sent)] ELSE j,
                      "commit"), "commit_read")

\* faulty variant: a failed POST is attempted again
lock_after_post_retry(i, outcome) ==
    LET j == Called(i, "post", outcome)
        sent == [url     |-> j.local.discord_url,
                 content |-> discord_payload(j.local.user_id, j.local.key_type,
                                             j.local.context_data["lockState"].v,
                                             j.local.context_data["battery"].v)]
    IN  IF outcome = "ok"
          THEN Waiting(Stage([j EXCEPT !.posts = Append(@, sent)], "commit"),
                       "commit_read")
        ELSE Waiting(j, "post")

lock_after_post(i, outcome) ==
    LET j == Called(i, "post", outcome)
        sent == [url     |-> j.local.discord_url,
                 content |-> discord_payload(j.local.user_id, j.local.key_type,
                                             j.local.context_data["lockState"].v,
                                             j.local.context_data["battery"].v)]
    IN  IF outcome = "ok"
          THEN Waiting(Stage([j EXCEPT !.posts = Append(@, sent)], "commit"),
                       "commit_read")
        ELSE lock_handler_except(j, outcome)

\* update_function_environment, lines 321-333: the configuration read and
\* the merge; current_env is the record the read returned
\* faulty variant: the state read when the invocation began is written back
merged_environment_old_state(current_env, i) ==
    [URL       |-> i.local.discord_url,
     USER_ID   |-> i.local.user_id,
     KEY_STATE |-> i.local.current_key_state] @@ current_env

\* faulty variant: only the three keys of the commit are written
merged_environment_drop_rest(current_env, i) ==
    [URL       |-> i.local.discord_url,
     USER_ID   |-> i.local.user_id,
     KEY_STATE |-> i.local.context_data["lockState"].v]

\* faulty variant: the values already stored take precedence in the merge
merged_environment_current_first(current_env, i) ==
    current_env @@ [URL       |-> i.local.discord_url,
                    USER_ID   |-> i.local.user_id,
                    KEY_STATE |-> i.local.context_data["lockState"].v]

merged_environment(current_env, i) ==
    [URL       |-> i.local.discord_url,
     USER_ID   |-> i.local.user_id,
     KEY_STATE |-> i.local.context_data["lockState"].v] @@ current_env

lock_after_commit_read(i, outcome, current_env) ==
    LET j == Called(i, "get_function_configuration(update)", outcome)
    IN  IF outcome = "ok"
          THEN Waiting([j EXCEPT !.local =
                          [new_env |-> merged_environment(current_env, j)] @@ @],
                       "commit_write")
        ELSE BadRequest(j)

\* update_function_environment, lines 336-357: the configuration write, and
\* the handler's 200 response
\* faulty variant: a failed write is answered as an internal error
lock_after_commit_write_server_error(i, outcome, done_message) ==
    LET j == Called(i, "update_function_configuration", outcome)
    IN  IF outcome = "ok"
          THEN Respond([j EXCEPT !.wrote = Append(@, j.local.new_env)], 200,
                       [message   |-> done_message,
                        new_state |-> j.local.context_data["lockState"].v,
                        battery   |-> j.local.context_data["battery"].v])
        ELSE ServerError(j)

lock_after_commit_write(i, outcome, done_message) ==
    LET j == Called(i, "update_function_configuration", outcome)
    IN  IF outcome = "ok"
          THEN Respond([j EXCEPT !.wrote = Append(@, j.local.new_env)], 200,
                       [message   |-> done_message,
                        new_state |-> j.local.context_data["lockState"].v,
                        battery   |-> j.local.context_data["battery"].v])
        ELSE BadRequest(j)

(***************************************************************************)
(* The router, src/04.sendKeyLockStatus.py.                                *)
(***************************************************************************)
\* lambda_handler, lines 285-307: up to the check_lambda_permissions call
router_begin(i) ==
    LET c == Stage(i, "config")
        e == Stage(c, "event")
        x == Stage(e, "context")
        validated == router_validate_event_data(i.event)
    IN  IF ~validate_environment_variables(i.osenv) THEN BadRequest(c)
        ELSE IF validated.exc # "" THEN lock_handler_except(e, validated.exc)
        ELSE IF ~validate_lambda_context(i.context) THEN BadRequest(x)
        ELSE LET r == lock_read_state(x, validated.value.v["context"].v)
             IN  [r EXCEPT !.local = [body |-> validated.value] @@ @]

\* lambda_handler, lines 310-375: check_lambda_permissions returned or raised,
\* then the branch on the device type
\* faulty variant: the router notifies and commits WoLock events itself
router_after_probe_lock_too(i, outcome) ==
    LET j == Called(i, "get_function_configuration", outcome)
        device_type == j.local.context_data["deviceType"].v
    IN  IF check_lambda_permissions(outcome) # "" THEN BadRequest(j)
        ELSE IF device_type \in {"WoLockPro", "WoLock"}
          THEN lock_dedupe(j, DEVICE_TYPES[device_type])
        ELSE Respond(j, 204, [message     |-> "device type not handled",
                              device_type |-> device_type])

router_after_probe(i, outcome) ==
    LET j == Called(i, "get_function_configuration", outcome)
        device_type == j.local.context_data["deviceType"].v
    IN  IF check_lambda_permissions(outcome) # "" THEN BadRequest(j)
        ELSE IF device_type = "WoLockPro" THEN lock_dedupe(j, DEVICE_TYPES[device_type])
        ELSE IF device_type = "WoLock" THEN Waiting(Stage(j, "route"), "target_probe")
        ELSE Respond(j, 204, [message     |-> "device type not handled",
                              device_type |-> device_type])

\* invoke_bottom_key_function, lines 181-209: the ValueError a failed
\* existence probe ends as; only ResourceNotFoundException is turned into
\* "not found" at once, any other error is re-raised to the outer handler
target_probe_error(outcome) ==
    IF outcome = "ResourceNotFoundException" THEN "target function not found"
    ELSE IF outcome = "AccessDeniedException" THEN "no permission to invoke"
    ELSE "invoke error"

\* invoke_bottom_key_function, lines 176-185: the existence probe
\* faulty variant: the answer of the probe is ignored
router_after_target_probe_ignored(i, outcome) ==
    Waiting(Called(i, "get_function_configuration(target)", outcome), "invoke")

router_after_target_probe(i, outcome) ==
    LET j == Called(i, "get_function_configuration(target)", outcome)
    IN  IF outcome = "ok" THEN Waiting(j, "invoke")
        ELSE BadRequest([j EXCEPT !.local =
                           [raised |-> target_probe_error(outcome)] @@ @])

\* invoke_bottom_key_function, lines 187-190: the payload for the sibling
\* faulty variant: the whole body is handed over
safe_payload_whole_body(body) == body.v

safe_payload(body) == [context |-> body.v["context"]]

\* invoke_bottom_key_function, lines 192-210, and the handler's response
router_after_invoke(i, outcome) ==
    LET j == Called(i, "invoke", outcome)
    IN  IF outcome = "ok"
          THEN Respond([j EXCEPT !.forwarded = Append(@, safe_payload(j.local.body))],
                       200, [message |-> "bottom key function invoked"])
        ELSE BadRequest(j)

(***************************************************************************)
(* The bottom-lock unit, src/02.sendKeyLockStatusBottom.py.                *)
(***************************************************************************)
\* lambda_handler up to the STS call of verify_iam_permissions
bottom_begin(i) ==
    LET a == Stage(i, "auth")
    IN  IF ~iam_context_ok(i.context) THEN Forbidden(a) ELSE Waiting(a, "sts")

\* lambda_handler, lines 365-393: the STS call returned (sts), the rest of
\* the authorization, and the validations up to check_lambda_permissions
bottom_after_sts(i, sts, current_time) ==
    LET k == Called(i, "sts", IF sts.err THEN "error" ELSE "ok")
        j == IF sts.err THEN k
             ELSE [k EXCEPT !.local = [caller_identity |-> sts.identity] @@ @]
        a == Authorized(j)
        c == Stage(a, "config")
        e == Stage(c, "event")
        x == Stage(e, "context")
        validated == bottom_validate_event_data(i.event)
    IN  IF ~perform_authorization_checks(i.event, i.context, sts, i.osenv, current_time)
          THEN Forbidden(j)
        ELSE IF ~validate_environment_variables(i.osenv) THEN BadRequest(c)
        ELSE IF validated.exc # "" THEN lock_handler_except(e, validated.exc)
        ELSE IF ~validate_lambda_context(i.context) THEN BadRequest(x)
        ELSE lock_read_state(x, validated.value)

\* lambda_handler, lines 396-412
bottom_after_probe(i, outcome) ==
    LET j == Called(i, "get_function_configuration", outcome)
    IN  IF check_lambda_permissions(outcome) # "" THEN BadRequest(j)
        ELSE lock_dedupe(j, "shita no kagi")

(***************************************************************************)
(* The sensor unit, src/03.sendTemperaturHumidity.py.                      *)
(***************************************************************************)
\* verify_scheduled_execution, lines 59-63
sensor_begin(i) ==
    LET a == Stage(i, "auth")
    IN  IF Has(i.context, "invoked_function_arn")
           /\ ~StartsWith(i.context["invoked_function_arn"], LambdaArnPrefix)
          THEN Forbidden(a)
        ELSE Waiting(a, "sts")

\* faulty variant: any caller identity is accepted
scheduled_role_ok_any(sts) == ~sts.err

\* verify_scheduled_execution, lines 66-82: the role check on the STS answer
scheduled_role_ok(sts) ==
    /\ ~sts.err
    /\ Contains(Get(sts.identity, "Arn", <<>>), SensorRole)

\* lambda_handler, lines 264-282
sensor_after_sts(i, sts, current_time) ==
    LET k == Called(i, "sts", IF sts.err THEN "error" ELSE "ok")
        j == IF sts.err THEN k
             ELSE [k EXCEPT !.local = [caller_identity |-> sts.identity] @@ @]
        c == Stage(Authorized(j), "config")
    IN  IF ~scheduled_role_ok(sts) THEN Forbidden(j)
        ELSE IF ~sensor_validate_environment_variables(i.osenv)
          THEN SensorError(c, current_time)
        ELSE Waiting(Stage(c, "telemetry"), "telemetry")

\* float(x) of a reading succeeds
FloatParses(x) == x.t \in {"int", "float", "numeric str"}

\* get_switchbot_data returned (answer.exc = "") or raised, and
\* send_discord_notification up to the POST (lines 215-241)
sensor_after_telemetry(i, answer, current_time) ==
    LET k == Called(i, "telemetry", IF answer.exc = "" THEN "ok" ELSE answer.exc)
        j == IF answer.exc # "" THEN k
             ELSE [k EXCEPT !.local = [response_data |-> answer.value] @@ @]
        d == Stage(j, "dispatch")
    IN  IF answer.exc # "" THEN SensorError(j, current_time)
        ELSE IF ~Has(answer.value, "body") THEN SensorError(j, current_time)
        ELSE LET devices_data == answer.value["body"]
             IN  IF devices_data.t # "dict" THEN SensorError(d, current_time)
                 ELSE LET temperature == Get(devices_data.v, "temperature", PyNone)
                          humidity    == Get(devices_data.v, "humidity", PyNone)
                      IN  IF temperature = PyNone \/ humidity = PyNone
                            THEN SensorError(d, current_time)
                          ELSE IF ~FloatParses(temperature) \/ ~FloatParses(humidity)
                            THEN SensorError(d, current_time)
                          ELSE Waiting([d EXCEPT !.local =
                                          [temperature |-> temperature,
                                           humidity    |-> humidity] @@ @], "post")

\* lines 243-256 and the handler's response
sensor_after_post(i, outcome, current_time) ==
    LET j == Called(i, "post", outcome)
        sent == [url     |-> j.osenv["DISCORD"],
                 content |-> [mention     |-> j.osenv["USER_ID"],
                              temperature |-> j.local.temperature,
                              humidity    |-> j.local.humidity]]
    IN  IF outcome = "ok"
          THEN Respond([j EXCEPT !.posts = Append(@, sent)], 200,
                       [message |-> "temperature and humidity sent",
                        timestamp |-> current_time])
        ELSE SensorError(j, current_time)

(***************************************************************************)
(* Spec: invocations of the three units, one after the other.  Each        *)
(* action is the return of one external call together with the handler's   *)
(* code up to its next external call.                                      *)
(***************************************************************************)
GoodUrl == <<"https", SchemeSep, "discord.com", "/api/webhooks/", "1/tok">>

NoPathUrl == <<"https", SchemeSep, "discord.com", "/other/", "1/tok">>

HttpUrl == <<"http", SchemeSep, "discord.com", "/api/webhooks/", "1/tok">>

SwitchbotUrl == <<"https", SchemeSep, "api.switch-bot.com", "/other/">>

UserId == <<"42">>

LockEnv(url) == [URL |-> url, USER_ID |-> UserId, TZ |-> <<"Asia/Tokyo">>]

SensorEnv(discord, token) ==
    [DEVICE_ID |-> <<"dev">>, TOKEN |-> token, SECRET |-> <<"sec">>,
     SWITCHBOT |-> SwitchbotUrl, DISCORD |-> discord, USER_ID |-> UserId]

Deployment(router, bottom, sensor) ==
    [u \in Units |-> CASE u = "router" -> router
                       [] u = "bottom" -> bottom
                       [] u = "sensor" -> sensor]

\* the configurations the units are deployed with; KEY_STATE is unset
Deployments ==
    { Deployment(LockEnv(GoodUrl), LockEnv(GoodUrl), SensorEnv(GoodUrl, <<"tok">>)),
      Deployment(LockEnv(GoodUrl),
                 [ALLOWED_SOURCE_IPS |-> <<IpA>>, WEBHOOK_SECRET |-> AuthzSecret]
                   @@ LockEnv(GoodUrl),
                 [ALLOWED_SOURCE_IPS |-> <<IpA>>, WEBHOOK_SECRET |-> AuthzSecret]
                   @@ SensorEnv(GoodUrl, <<"tok">>)),
      Deployment(LockEnv(GoodUrl),
                 [ALLOWED_SOURCE_IPS |-> <<IpA>>] @@ LockEnv(GoodUrl),
                 SensorEnv(GoodUrl, <<"tok">>)),
      Deployment(LockEnv(GoodUrl),
                 [WEBHOOK_SECRET |-> AuthzSecret] @@ LockEnv(GoodUrl),
                 SensorEnv(GoodUrl, <<"tok">>)),
      Deployment(LockEnv(NoPathUrl), LockEnv(NoPathUrl),
                 SensorEnv(NoPathUrl, <<"tok">>)),
      Deployment(LockEnv(HttpUrl), LockEnv(HttpUrl), SensorEnv(HttpUrl, <<"tok">>)),
      Deployment([USER_ID |-> UserId], [USER_ID |-> UserId],
                 SensorEnv(GoodUrl, <<Space>>)) }

ArnOf(unit) == LambdaArnPrefix \o <<"ap-northeast-1:1:function:", unit>>

\* the function an ARN names
FunctionOf(arn) == arn[Len(arn)]

ContextsOf(unit) ==
    { EmptyDict, [invoked_function_arn |-> ArnOf(unit)],
      [invoked_function_arn |-> <<"arn:aws:s3:", "bucket">>] }

DeviceTypeValues == {PyStr("WoLockPro"), PyStr("WoLock"), PyStr("WoHub2"), PyStr("WoCurtain")}

BatteryValues == {PyInt(-1), PyInt(0), PyInt(100), PyInt(101), PyStr(<<"55">>)}

LockStateValues ==
    {PyStr(<<>>), PyStr(<<Space>>), PyStr(<<"locked">>), PyStr(<<"unlocked">>), PyInt(1)}

ContextData(deviceTypes) ==
    LET full(d, b, l) == [deviceType |-> d, battery |-> b, lockState |-> l]
    IN  { Restrict(full(d, b, l), keys) :
            d \in deviceTypes, b \in BatteryValues, l \in LockStateValues,
            keys \in { {"deviceType", "battery", "lockState"}, {"battery", "lockState"},
                       {"deviceType", "lockState"}, {"deviceType", "battery"},
                       {"deviceType"} } }

RouterBodies ==
    { [kind |-> "garbage", value |-> PyNone], [kind |-> "object", value |-> PyNone],
      [kind |-> "json", value |-> PyInt(1)],
      [kind |-> "json", value |-> PyDict([eventType |-> PyStr(<<"changeReport">>)])],
      [kind |-> "json", value |-> PyDict([context |-> PyInt(1)])] }
      \cup { [kind  |-> "json",
              value |-> PyDict([eventType |-> PyStr(<<"changeReport">>),
                                context   |-> PyDict(c)])] :
               c \in ContextData(DeviceTypeValues) }

RouterEvents ==
    {EmptyDict} \cup { [body |-> b, headers |-> EmptyDict] : b \in RouterBodies }

\* the transport part of a request to the bottom-lock unit
BottomTransports ==
    LET signed(timestamp, sig) ==
            ("X-Signature" :> sig) @@ ("X-Timestamp" :> timestamp)
        good(timestamp) == expected_signature(timestamp, AuthzBody, AuthzSecret)
        from(ip) == [identity |-> [sourceIp |-> ip]]
    IN  { EmptyDict,
          [requestContext |-> from(IpA), body |-> AuthzBody,
           headers |-> signed(<<"1">>, good(<<"1">>))],
          [requestContext |-> from(IpA), body |-> AuthzBody,
           headers |-> signed(<<"1", "1">>, good(<<"1", "1">>))],
          [requestContext |-> from(IpA), body |-> AuthzBody,
           headers |-> signed(<<"1">>, <<"garbage">>)],
          [requestContext |-> from(IpC), body |-> AuthzBody,
           headers |-> signed(<<"1">>, good(<<"1">>))],
          [body |-> AuthzBody,
           headers |-> ("X-Forwarded-For" :> << <<Space>> \o IpA, IpC >>)
                         @@ signed(<<"1">>, good(<<"1">>))] }

BottomEvents ==
    BottomTransports
      \cup { [context |-> c] @@ t :
               t \in BottomTransports,
               c \in {PyInt(1)} \cup
                     { PyDict(d) : d \in ContextData({PyStr("WoLock"), PyStr("WoCurtain")}) } }

\* the scheduler's event, and one that names an unlisted source IP and
\* carries a wrong signature
SensorEvents ==
    { EmptyDict,
      [requestContext |-> [identity |-> [sourceIp |-> IpC]], body |-> AuthzBody,
       headers |-> ("X-Signature" :> <<"garbage">>) @@ ("X-Timestamp" :> <<"1">>)] }

ProbeOutcomes == {"ok", "NoRole", "ResourceNotFoundException", "AccessDeniedException"}

\* success, timeout, transport error, non-2xx answer (raise_for_status)
PostOutcomes == {"ok", "Timeout", "ConnectionError", "HTTPError"}

ConfigOutcomes == {"ok", "AccessDeniedException"}

Readings == {PyInt(21), PyStr(<<"warm">>), [t |-> "numeric str", v |-> <<"21.5">>]}

TelemetryAnswers ==
    { Raised("Timeout"), Raised("HTTPError"), Returned(EmptyDict),
      Returned([body |-> PyInt(1)]),
      Returned([body |-> PyDict([temperature |-> PyInt(21)])]) }
      \cup { Returned([body |-> PyDict([temperature |-> t, humidity |-> h])]) :
               t \in Readings \cup {PyNone}, h \in Readings }

Init ==
    /\ env \in Deployments
    /\ inv = BlankInv
    /\ queue = <<>>
    /\ now = MaxTime - 1
    /\ trial = NoTrial

Idle == inv.pc = "idle"

StartRouter ==
    /\ Idle /\ queue = <<>>
    /\ \E event \in RouterEvents, context \in ContextsOf("router") :
         inv' = router_begin(NewInv("router", event, context, env["router"], "trigger"))
    /\ UNCHANGED <<env, queue, now, trial>>

StartBottom ==
    /\ Idle /\ queue = <<>>
    /\ \E event \in BottomEvents, context \in ContextsOf("bottom") :
         inv' = bottom_begin(NewInv("bottom", event, context, env["bottom"], "trigger"))
    /\ UNCHANGED <<env, queue, now, trial>>

StartSensor ==
    /\ Idle /\ queue = <<>>
    /\ \E event \in SensorEvents, context \in ContextsOf("sensor") :
         inv' = sensor_begin(NewInv("sensor", event, context, env["sensor"], "schedule"))
    /\ UNCHANGED <<env, queue, now, trial>>

\* the platform delivers a payload the router's invoke call handed over
DeliverForwarded ==
    /\ Idle /\ queue # <<>>
    /\ inv' = bottom_begin(NewInv("bottom", Head(queue),
                                  [invoked_function_arn |-> ArnOf("bottom")],
                                  env["bottom"], "router"))
    /\ queue' = Tail(queue)
    /\ UNCHANGED <<env, now, trial>>

\* the platform hands the response to the caller and the invocation ends
Retire ==
    /\ inv.pc = "done"
    /\ inv' = BlankInv
    /\ UNCHANGED <<env, queue, now, trial>>

StsReturnBottom ==
    /\ inv.pc = "sts" /\ inv.unit = "bottom"
    /\ \E sts \in StsOutcomes(BottomRole) : inv' = bottom_after_sts(inv, sts, now)
    /\ UNCHANGED <<env, queue, now, trial>>

StsReturnSensor ==
    /\ inv.pc = "sts" /\ inv.unit = "sensor"
    /\ \E sts \in StsOutcomes(SensorRole) : inv' = sensor_after_sts(inv, sts, now)
    /\ UNCHANGED <<env, queue, now, trial>>

ProbeReturnRouter ==
    /\ inv.pc = "probe" /\ inv.unit = "router"
    /\ \E outcome \in ProbeOutcomes : inv' = router_after_probe(inv, outcome)
    /\ UNCHANGED <<env, queue, now, trial>>

ProbeReturnBottom ==
    /\ inv.pc = "probe" /\ inv.unit = "bottom"
    /\ \E outcome \in ProbeOutcomes : inv' = bottom_after_probe(inv, outcome)
    /\ UNCHANGED <<env, queue, now, trial>>

PostReturnLock ==
    /\ inv.pc = "post" /\ inv.unit \in {"router", "bottom"}
    /\ \E outcome \in PostOutcomes : inv' = lock_after_post(inv, outcome)
    /\ UNCHANGED <<env, queue, now, trial>>

CommitRead ==
    /\ inv.pc = "commit_read"
    /\ \E outcome \in ConfigOutcomes :
         inv' = lock_after_commit_read(inv, outcome,
                                       env[FunctionOf(inv.local.function_arn)])
    /\ UNCHANGED <<env, queue, now, trial>>

DoneMessage(unit) ==
    IF unit = "router" THEN "upper key state sent" ELSE "bottom key state sent"

CommitWrite ==
    /\ inv.pc = "commit_write"
    /\ \E outcome \in ConfigOutcomes :
         /\ inv' = lock_after_commit_write(inv, outcome, DoneMessage(inv.unit))
         /\ env' = IF outcome = "ok"
                     THEN [env EXCEPT ![FunctionOf(inv.local.function_arn)] =
                                          inv.local.new_env]
                     ELSE env
    /\ UNCHANGED <<queue, now, trial>>

TargetProbeReturn ==
    /\ inv.pc = "target_probe"
    /\ \E outcome \in ProbeOutcomes \ {"NoRole"} :
         inv' = router_after_target_probe(inv, outcome)
    /\ UNCHANGED <<env, queue, now, trial>>

InvokeReturn ==
    /\ inv.pc = "invoke"
    /\ \E outcome \in ConfigOutcomes :
         /\ inv' = router_after_invoke(inv, outcome)
         /\ queue' = IF outcome = "ok"
                       THEN Append(queue, safe_payload(inv.local.body))
                       ELSE queue
    /\ UNCHANGED <<env, now, trial>>

TelemetryReturn ==
    /\ inv.pc = "telemetry"
    /\ \E answer \in TelemetryAnswers : inv' = sensor_after_telemetry(inv, answer, now)
    /\ UNCHANGED <<env, queue, now, trial>>

PostReturnSensor ==
    /\ inv.pc = "post" /\ inv.unit = "sensor"
    /\ \E outcome \in PostOutcomes : inv' = sensor_after_post(inv, outcome, now)
    /\ UNCHANGED <<env, queue, now, trial>>

Next ==
    \/ StartRouter \/ StartBottom \/ StartSensor \/ DeliverForwarded
    \/ StsReturnBottom \/ StsReturnSensor
    \/ ProbeReturnRouter \/ ProbeReturnBottom
    \/ PostReturnLock \/ CommitRead \/ CommitWrite
    \/ TargetProbeReturn \/ InvokeReturn
    \/ TelemetryReturn \/ PostReturnSensor
    \/ Retire \/ Tick

Spec == Init /\ [][Next]_vars

(***************************************************************************)
(* Properties of the invocations.                                          *)
(***************************************************************************)
LockUnits == {"router", "bottom"}

Done == inv.pc = "done"

CallNames == {inv.calls[k].call : k \in DOMAIN inv.calls}

CallOk(name) ==
    \E k \in DOMAIN inv.calls : inv.calls[k] = [call |-> name, outcome |-> "ok"]

AllCallsOk == \A k \in DOMAIN inv.calls : inv.calls[k].outcome = "ok"

Delivered == Len(inv.posts) > 0

Committed == Len(inv.wrote) > 0

\* the context object the request carries, as sent (the empty dict if none)
SentContext ==
    IF inv.unit = "bottom"
      THEN IF Has(inv.event, "context") /\ inv.event["context"].t = "dict"
             THEN inv.event["context"].v ELSE EmptyDict
    ELSE IF inv.unit = "router"
      THEN IF /\ Has(inv.event, "body")
              /\ inv.event["body"].kind = "json"
              /\ inv.event["body"].value.t = "dict"
              /\ Has(inv.event["body"].value.v, "context")
              /\ inv.event["body"].value.v["context"].t = "dict"
             THEN inv.event["body"].value.v["context"].v ELSE EmptyDict
    ELSE EmptyDict

SentIs(field, type) ==
    Has(SentContext, field) /\ SentContext[field].t = type

SentDeviceType == IF SentIs("deviceType", "str") THEN SentContext["deviceType"].v ELSE ""

\* the state stored for the unit when the invocation began
StoredState == Get(inv.osenv, "KEY_STATE", <<>>)

\* C1 (as stated): in a lock unit an invocation updates the persisted state
\* if and only if its webhook delivery succeeded.
C1_Original ==
    (inv.unit \in LockUnits /\ Done) =>
        (Committed <=> Delivered)

\* C1 (amended): in a lock unit no invocation updates the persisted state
\* without a successful webhook delivery of its own, and every successful
\* delivery is followed by a commit attempt, which sets KEY_STATE to the
\* event's lockState if the configuration read and write both succeed and
\* otherwise leaves the persisted state as it was and ends with 400.
C1_CommitOnlyAfterDelivery ==
    (inv.unit \in LockUnits) =>
        /\ Len(inv.posts) <= 1 /\ Len(inv.wrote) <= 1
        /\ Committed => Delivered
        /\ Committed =>
             /\ env[inv.unit] = inv.wrote[1]
             /\ SentIs("lockState", "str")
             /\ env[inv.unit]["KEY_STATE"] = SentContext["lockState"].v
        /\ ~Committed => env[inv.unit] = inv.osenv
        /\ (Done /\ Delivered) =>
             /\ "get_function_configuration(update)" \in CallNames
             /\ Committed <=> (/\ CallOk("get_function_configuration(update)")
                               /\ CallOk("update_function_configuration"))
             /\ ~Committed => inv.status = 400

\* a delivered notification of the bottom-lock unit was committed
C1_Witness ==
    /\ inv.unit = "bottom" /\ Done /\ Delivered /\ Committed
    /\ inv.status = 200
    /\ env["bottom"]["KEY_STATE"] = <<"locked">>
    /\ StoredState = <<"unlocked">>

\* the unit handles the event's device itself
OwnDevice ==
    inv.unit = "bottom" \/ (inv.unit = "router" /\ SentDeviceType = "WoLockPro")

\* C2 (as stated): every input to a lock unit whose lockState equals the
\* stored state, whatever the battery value, causes no webhook call and no
\* state change and is answered 204.
C2_Original ==
    (/\ OwnDevice /\ Done
     /\ SentIs("lockState", "str") /\ SentContext["lockState"].v = StoredState) =>
        /\ ~Delivered /\ ~Committed
        /\ inv.status = 204

\* C2 (amended): an event of a lock unit's own device whose lockState equals
\* (as a string) the stored state causes no webhook call and no state
\* change; it is answered 204 when the invocation reaches the state-change
\* check, that is when authorization, configuration, event and context
\* validation and the permission probe succeed, whatever the (valid) battery
\* value, and 400 or 403 when one of those rejects it first.
C2_SameStateNoOp ==
    (/\ OwnDevice /\ inv.pc # "idle"
     /\ SentIs("lockState", "str") /\ SentContext["lockState"].v = StoredState) =>
        /\ "post" \notin CallNames
        /\ ~Delivered /\ ~Committed
        /\ env[inv.unit] = inv.osenv
        /\ inv.pc \notin {"post", "commit_read", "commit_write"}
        /\ Done => inv.status \in {204, 400, 403}
        /\ (Done /\ CallOk("get_function_configuration")) => inv.status = 204

\* an event repeating the stored state with another battery value than the
\* one last notified was answered 204
C2_Witness ==
    /\ inv.unit = "bottom" /\ Done /\ inv.status = 204
    /\ StoredState = <<"locked">>
    /\ SentContext["lockState"].v = <<"locked">>
    /\ SentContext["battery"].v = 0
    /\ inv.calls = << [call |-> "sts", outcome |-> "ok"],
                      [call |-> "get_function_configuration", outcome |-> "ok"] >>

\* battery outside [0,100], or lockState the empty string
BadLockFields ==
    \/ SentIs("battery", "int")
         /\ (SentContext["battery"].v < 0 \/ SentContext["battery"].v > 100)
    \/ SentIs("lockState", "str") /\ SentContext["lockState"].v = <<>>

\* C3 (as stated): an event of a lock unit with battery outside [0,100] or
\* an empty lockState is rejected by the event validator before any network
\* call of the invocation.
C3_Original ==
    (inv.unit \in LockUnits /\ BadLockFields) =>
        /\ inv.calls = <<>>
        /\ Done => inv.status = 400

\* C3 (amended): an event with battery outside [0,100] or an empty lockState
\* (in the router: of any device type but the non-actionable WoHub2) is
\* rejected with 400, or with 403 when the bottom-lock unit's authorization
\* fails first; the router rejects it before any network call, the
\* bottom-lock unit after the identity introspection of its authorizer and
\* before any other network call (configuration read or write, webhook POST).
C3_BadFieldsRejected ==
    (inv.unit \in LockUnits /\ BadLockFields /\ SentDeviceType # "WoHub2") =>
        /\ inv.unit = "router" => inv.calls = <<>>
        /\ inv.unit = "bottom" => CallNames \subseteq {"sts"}
        /\ ~Delivered /\ ~Committed /\ inv.forwarded = <<>>
        /\ inv.pc \in {"sts", "done"}
        /\ Done => inv.status \in {400, 403}
        /\ (Done /\ inv.status = 400 /\ inv.stages # <<>>
              /\ inv.stages[Len(inv.stages)] = "event") => inv.auth # "denied"
        /\ (Done /\ inv.auth = "ok") => inv.status = 400

\* the bottom-lock unit's validator rejected a battery of 101 after the
\* identity introspection
C3_Witness ==
    /\ inv.unit = "bottom" /\ Done /\ inv.status = 400
    /\ SentIs("battery", "int") /\ SentContext["battery"].v = 101
    /\ inv.stages = <<"auth", "config", "event">>
    /\ inv.calls = << [call |-> "sts", outcome |-> "ok"] >>

\* C4: event validation, dedupe check, routing, webhook dispatch and state
\* commit happen only after the request authenticator returned Ok for the
\* invocation.
C4_AuthenticatorFirst ==
    (\E k \in DOMAIN inv.stages :
        inv.stages[k] \in {"event", "dedupe", "route", "dispatch", "commit"})
      => (inv.auth = "ok" /\ inv.stages[1] = "auth")

\* the router accepts configuration, event and context, and every external
\* call the invocation made succeeded
RouterHappyPath ==
    /\ inv.unit = "router" /\ Done
    /\ validate_environment_variables(inv.osenv)
    /\ router_validate_event_data(inv.event).exc = ""
    /\ validate_lambda_context(inv.context)
    /\ AllCallsOk

\* C8: a valid WoLockPro event whose lockState differs from the stored
\* state, with all external calls succeeding, makes the router send exactly
\* one webhook message with the upper-lock label (DEVICE_TYPES["WoLockPro"]),
\* the lockState and the battery value, commit KEY_STATE to the event's
\* lockState, and respond 200.
C8_UpperLockNotified ==
    (/\ RouterHappyPath /\ SentDeviceType = "WoLockPro"
     /\ SentContext["lockState"].v # StoredState) =>
        /\ inv.posts =
             << [url     |-> inv.osenv["URL"],
                 content |-> [mention    |-> inv.osenv["USER_ID"],
                              key_type   |-> "ue no kagi",
                              lock_state |-> SentContext["lockState"].v,
                              battery    |-> SentContext["battery"].v]] >>
        /\ Len(inv.wrote) = 1
        /\ inv.wrote[1]["KEY_STATE"] = SentContext["lockState"].v
        /\ env["router"] = inv.wrote[1]
        /\ inv.status = 200
        /\ inv.forwarded = <<>>

\* the stored state was "unlocked" and the event reported "locked"
C8_Witness ==
    /\ RouterHappyPath /\ SentDeviceType = "WoLockPro"
    /\ StoredState = <<"unlocked">>
    /\ SentContext["lockState"].v = <<"locked">>
    /\ SentContext["battery"].v = 100
    /\ Delivered /\ Committed /\ inv.status = 200
    /\ env["router"]["KEY_STATE"] = <<"locked">>

\* C9: for a valid WoLock event the router hands the sibling unit a payload
\* with the single field `context` of the validated body and responds 200;
\* for no WoLock event does it post to the webhook or commit state itself.
C9_ForwardOnlyContext ==
    (inv.unit = "router" /\ SentDeviceType = "WoLock") =>
        /\ ~Delivered /\ ~Committed /\ "post" \notin CallNames
        /\ env["router"] = inv.osenv
        /\ \A k \in DOMAIN inv.forwarded :
             /\ DOMAIN inv.forwarded[k] = {"context"}
             /\ inv.forwarded[k]["context"] = PyDict(SentContext)
        /\ RouterHappyPath =>
             /\ Len(inv.forwarded) = 1
             /\ inv.status = 200
             /\ queue = inv.forwarded

\* a WoLock event was forwarded and waits for the sibling unit
C9_Witness ==
    /\ RouterHappyPath /\ SentDeviceType = "WoLock"
    /\ Len(inv.forwarded) = 1 /\ inv.status = 200
    /\ "eventType" \in DOMAIN inv.event["body"].value.v
    /\ queue = << [context |-> PyDict(SentContext)] >>

\* the webhook URL the unit is configured with
WebhookUrl ==
    IF inv.unit = "sensor" THEN Get(inv.osenv, "DISCORD", <<>>)
    ELSE Get(inv.osenv, "URL", <<>>)

\* C10: with a webhook URL that is not a valid Discord webhook URL, every
\* unit's invocation ends in configuration validation, as its first step,
\* before any authorization or event check and before any external call,
\* with status 400 or 500.
C10_InvalidUrlRejectedFirst ==
    (inv.pc # "idle" /\ ~is_valid_discord_webhook_url(WebhookUrl)) =>
        /\ inv.stages = <<"config">>
        /\ inv.calls = <<>>
        /\ Done /\ inv.status \in {400, 500}

\* the last step the invocation entered ("" before the first)
LastStage == IF inv.stages = <<>> THEN "" ELSE inv.stages[Len(inv.stages)]

\* an external call with one of the names failed
CallFailed(names) ==
    \E k \in DOMAIN inv.calls :
        inv.calls[k].call \in names /\ inv.calls[k].outcome # "ok"

ConfigStoreCalls ==
    {"get_function_configuration", "get_function_configuration(update)",
     "get_function_configuration(target)", "update_function_configuration"}

\* the invocation was rejected by configuration, event or context validation
ValidationFailed ==
    /\ Done /\ inv.status \notin {200, 204} /\ inv.auth # "denied"
    /\ AllCallsOk
    /\ LastStage \in {"config", "event", "context"}

\* C11: in every unit a failed invocation is answered by the kind of the
\* failure: authorization failure 403; configuration, event or context
\* validation failure 400; failed telemetry or webhook call 500; failed
\* configuration-store read or write 500.
C11_ErrorMapping ==
    Done =>
        /\ inv.auth = "denied" => inv.status = 403
        /\ ValidationFailed => inv.status = 400
        /\ CallFailed({"telemetry", "post"}) => inv.status = 500
        /\ CallFailed(ConfigStoreCalls) => inv.status = 500

\* the error message a unit answers with a failure status code
ErrorMessage(status) ==
    CASE status = 403 -> "access denied"
      [] status = 400 -> "invalid request data"
      [] status = 500 -> "internal server error"

\* C12: the body of every failure response (403, 400, 500) is determined by
\* the status code alone: it carries the one error message of that code and,
\* in the sensor unit's 500, the clock reading of the response; nothing of
\* the request, of the rejecting step or of an upstream error code.
C12_GenericErrorBody ==
    (Done /\ inv.status \in {400, 403, 500}) =>
        /\ inv.body["error"] = ErrorMessage(inv.status)
        /\ IF inv.unit = "sensor" /\ inv.status = 500
             THEN /\ DOMAIN inv.body = {"error", "timestamp"}
                  /\ inv.body["timestamp"] \in (MaxTime - 1)..now
             ELSE inv.body = [error |-> ErrorMessage(inv.status)]

\* a 400 after an upstream error code, answered with the generic message only
C12_Witness ==
    /\ Done /\ inv.unit = "bottom" /\ inv.status = 400
    /\ \E k \in DOMAIN inv.calls : inv.calls[k].outcome = "AccessDeniedException"
    /\ inv.body = [error |-> "invalid request data"]

\* C13: a WoHub2 event passes the router's event validation whatever its
\* battery and lockState fields are, present or not, and causes no webhook
\* call, no forwarding to the sibling unit and no change of the persisted
\* state; with valid configuration and context and a successful permission
\* probe the response is 204.
C13_NonActionableNoOp ==
    (inv.unit = "router" /\ inv.pc # "idle" /\ SentDeviceType = "WoHub2") =>
        /\ router_validate_event_data(inv.event).exc = ""
        /\ ~Delivered /\ ~Committed
        /\ inv.forwarded = <<>> /\ queue = <<>>
        /\ env["router"] = inv.osenv
        /\ CallNames \subseteq {"get_function_configuration"}
        /\ Done => inv.status \in {204, 400}
        /\ RouterHappyPath =>
             /\ inv.status = 204
             /\ inv.body = [message     |-> "device type not handled",
                            device_type |-> "WoHub2"]

\* a WoHub2 event carrying neither battery nor lockState was answered 204
C13_Witness ==
    /\ RouterHappyPath /\ SentDeviceType = "WoHub2"
    /\ DOMAIN SentContext = {"deviceType"}
    /\ inv.status = 204
    /\ inv.calls = << [call |-> "get_function_configuration", outcome |-> "ok"] >>

\* the event names one of the enumerated device types
KnownDeviceType == SentDeviceType \in DOMAIN DEVICE_TYPES

\* C14: in both lock units an event whose deviceType is absent or is none of
\* the enumerated device types is rejected by event validation and reaches
\* neither the state-change check nor dispatch, routing or commit.
C14_UnknownDeviceRejected ==
    (inv.unit \in LockUnits /\ inv.pc # "idle" /\ ~KnownDeviceType) =>
        /\ \A k \in DOMAIN inv.stages :
             inv.stages[k] \notin {"dedupe", "dispatch", "route", "commit"}
        /\ ~Delivered /\ ~Committed /\ inv.forwarded = <<>>
        /\ Done => inv.status \notin {200, 204}

(***************************************************************************)
(* SpecRace: two invocations of one lock unit run concurrently.  Both run  *)
(* the handler's code; the platform holds no lock between them, so their   *)
(* steps interleave freely.  trial holds the unit, the two invocations and *)
(* the order of the configuration writes that succeeded.                   *)
(***************************************************************************)
Procs == {"a", "b"}

RaceLockStates == {<<"locked">>, <<"unlocked">>}

RaceEvents(unit) ==
    LET c(l) == PyDict([deviceType |-> PyStr(IF unit = "router" THEN "WoLockPro"
                                             ELSE "WoLock"),
                        battery    |-> PyInt(100),
                        lockState  |-> PyStr(l)])
    IN  IF unit = "router"
          THEN { [body    |-> [kind |-> "json", value |-> PyDict([context |-> c(l)])],
                  headers |-> EmptyDict] : l \in RaceLockStates }
        ELSE { [context |-> c(l)] : l \in RaceLockStates }

InitRace ==
    /\ env = Deployment(LockEnv(GoodUrl), LockEnv(GoodUrl), SensorEnv(GoodUrl, <<"tok">>))
    /\ inv = BlankInv
    /\ queue = <<>>
    /\ now = MaxTime - 1
    /\ \E unit \in LockUnits :
         trial = [kind  |-> "race", unit |-> unit,
                  procs |-> [p \in Procs |-> BlankInv], order |-> <<>>,
                  after |-> [p \in Procs |-> {}]]

\* trial.procs holds the two invocations, trial.order the processes in the
\* order of their commits, and trial.after[p] the processes whose invocation
\* had ended when the invocation of p began
\* process p moves on to the invocation record r
RaceMove(p, r) == trial' = [trial EXCEPT !.procs[p] = r]

RaceStart ==
    /\ \E p \in Procs, event \in RaceEvents(trial.unit) :
         /\ trial.procs[p].pc = "idle"
         /\ LET i == NewInv(trial.unit, event,
                            [invoked_function_arn |-> ArnOf(trial.unit)],
                            env[trial.unit], "trigger")
            IN  trial' = [trial EXCEPT
                            !.procs[p] = IF trial.unit = "router" THEN router_begin(i)
                                         ELSE bottom_begin(i),
                            !.after[p] = {q \in Procs : trial.procs[q].pc = "done"}]
    /\ UNCHANGED <<env, inv, queue, now>>

RaceSts ==
    /\ \E p \in Procs, sts \in StsOutcomes(BottomRole) :
         /\ trial.procs[p].pc = "sts"
         /\ RaceMove(p, bottom_after_sts(trial.procs[p], sts, now))
    /\ UNCHANGED <<env, inv, queue, now>>

RaceProbe ==
    /\ \E p \in Procs, outcome \in ProbeOutcomes :
         /\ trial.procs[p].pc = "probe"
         /\ RaceMove(p, IF trial.unit = "router"
                          THEN router_after_probe(trial.procs[p], outcome)
                        ELSE bottom_after_probe(trial.procs[p], outcome))
    /\ UNCHANGED <<env, inv, queue, now>>

RacePost ==
    /\ \E p \in Procs, outcome \in PostOutcomes :
         /\ trial.procs[p].pc = "post"
         /\ RaceMove(p, lock_after_post(trial.procs[p], outcome))
    /\ UNCHANGED <<env, inv, queue, now>>

RaceCommitRead ==
    /\ \E p \in Procs, outcome \in ConfigOutcomes :
         /\ trial.procs[p].pc = "commit_read"
         /\ RaceMove(p, lock_after_commit_read(
                          trial.procs[p], outcome,
                          env[FunctionOf(trial.procs[p].local.function_arn)]))
    /\ UNCHANGED <<env, inv, queue, now>>

RaceCommitWrite ==
    /\ \E p \in Procs, outcome \in ConfigOutcomes :
         /\ trial.procs[p].pc = "commit_write"
         /\ LET r == trial.procs[p]
            IN  /\ trial' = [trial EXCEPT
                               !.procs[p] = lock_after_commit_write(
                                              r, outcome, DoneMessage(r.unit)),
                               !.order = IF outcome = "ok" THEN Append(@, p) ELSE @]
                /\ env' = IF outcome = "ok"
                            THEN [env EXCEPT ![FunctionOf(r.local.function_arn)] =
                                                 r.local.new_env]
                            ELSE env
    /\ UNCHANGED <<inv, queue, now>>

NextRace ==
    \/ RaceStart \/ RaceSts \/ RaceProbe \/ RacePost
    \/ RaceCommitRead \/ RaceCommitWrite

SpecRace == InitRace /\ [][NextRace]_vars

\* the lockState of the event process p handles (after its validation)
RaceLockState(p) == trial.procs[p].local.context_data["lockState"].v

RaceCommitted(p) == Len(trial.procs[p].wrote) > 0

\* C15: concurrent invocations of a lock unit are not serialized.  Each
\* decides on the state stored when it began, whatever has been committed
\* since; each commit follows a delivery of its own; and the stored state is
\* always the one written by the latest successful commit (the last writer
\* wins).
C15_LastWriterWins ==
    LET u == trial.unit
    IN  /\ \A p \in Procs :
             /\ RaceCommitted(p) <=> p \in Range(trial.order)
             /\ RaceCommitted(p) =>
                  /\ Len(trial.procs[p].posts) = 1
                  /\ trial.procs[p].status = 200
             /\ trial.procs[p].pc \in {"post", "commit_read", "commit_write"} =>
                  RaceLockState(p) # Get(trial.procs[p].osenv, "KEY_STATE", <<>>)
        /\ Len(trial.order) <= 2
        /\ trial.order = <<>> => env[u] = LockEnv(GoodUrl)
        /\ trial.order # <<>> =>
             LET w == trial.order[Len(trial.order)]
             IN  /\ env[u] = trial.procs[w].wrote[1]
                 /\ env[u]["KEY_STATE"] = RaceLockState(w)

\* both invocations began on the unset stored state, both delivered their
\* notification and both committed; the state of the later commit is stored
C15_Witness ==
    /\ trial.order = <<"a", "b">>
    /\ \A p \in Procs :
         /\ trial.procs[p].pc = "done" /\ trial.procs[p].status = 200
         /\ ~Has(trial.procs[p].osenv, "KEY_STATE")
         /\ Len(trial.procs[p].posts) = 1
         /\ RaceCommitted(p)
    /\ RaceLockState("a") = <<"unlocked">>
    /\ RaceLockState("b") = <<"locked">>
    /\ env[trial.unit]["KEY_STATE"] = <<"locked">>

\* how many times the invocation made the external call
CallCount(name) == Cardinality({k \in DOMAIN inv.calls : inv.calls[k].call = name})

\* C16: nothing is retried.  An invocation makes every external call at most
\* once, the webhook POST included, and a failed POST (timeout, transport
\* error, non-2xx answer) is the invocation's last call: it ends with 500,
\* nothing delivered, nothing committed, the persisted state as it was.
C16_NoRetry ==
    /\ \A name \in CallNames : CallCount(name) = 1
    /\ CallFailed({"post"}) =>
         /\ Done /\ inv.status = 500
         /\ inv.calls[Len(inv.calls)].call = "post"
         /\ ~Delivered /\ ~Committed
         /\ inv.unit \in LockUnits => env[inv.unit] = inv.osenv

\* the POST of a state-changing event timed out in the bottom-lock unit
C16_Witness ==
    /\ Done /\ inv.unit = "bottom" /\ inv.status = 500
    /\ inv.calls[Len(inv.calls)] = [call |-> "post", outcome |-> "Timeout"]
    /\ SentContext["lockState"].v = <<"locked">>
    /\ env["bottom"] = inv.osenv /\ StoredState = <<>>

(***************************************************************************)
(* SpecLive: Spec with the assumption that every external call returns or  *)
(* raises (each carries a timeout) and that the platform takes the         *)
(* response of a finished invocation.                                      *)
(***************************************************************************)
SpecLive ==
    /\ Spec
    /\ WF_vars(StsReturnBottom) /\ WF_vars(StsReturnSensor)
    /\ WF_vars(ProbeReturnRouter) /\ WF_vars(ProbeReturnBottom)
    /\ WF_vars(PostReturnLock) /\ WF_vars(PostReturnSensor)
    /\ WF_vars(CommitRead) /\ WF_vars(CommitWrite)
    /\ WF_vars(TargetProbeReturn) /\ WF_vars(InvokeReturn)
    /\ WF_vars(TelemetryReturn)

\* the ways an invocation ends
Rejected == Done /\ inv.status \in {400, 403, 500}

Deduped == Done /\ inv.status = 204 /\ LastStage = "dedupe"

NotHandled == Done /\ inv.status = 204 /\ LastStage # "dedupe"

Routed == Done /\ inv.status = 200 /\ Len(inv.forwarded) = 1

CommittedEnd == Done /\ inv.status = 200 /\ Delivered /\ Committed

NotifiedEnd == Done /\ inv.status = 200 /\ Delivered /\ ~Committed

HowMany(flags) == Cardinality({k \in DOMAIN flags : flags[k]})

Running == inv.pc \notin {"idle", "done"}

\* C17 (as stated): every invocation ends with a response in exactly one of
\* Deduped (204), Routed, Committed, Rejected, and none delivers its
\* notification without then committing or being rejected.
C17_Original ==
    Done =>
        /\ HowMany(<<Rejected, inv.status = 204, Routed, CommittedEnd>>) = 1
        /\ Delivered => (CommittedEnd \/ Rejected)

\* C17 (amended): every invocation that began ends with a response, in
\* exactly one of: Rejected (400, 403, 500), Deduped (204, equal state),
\* not handled (204, non-actionable device type, router only), Routed
\* (router only), Committed (lock units only), Notified (sensor unit only,
\* which has no state to commit).  A lock unit that delivered its
\* notification ends Committed or is rejected with 400 by a failed commit.
C17_EndsInOneTerminalState ==
    /\ [](Done =>
            /\ HowMany(<<Rejected, Deduped, NotHandled, Routed,
                         CommittedEnd, NotifiedEnd>>) = 1
            /\ NotifiedEnd <=> (inv.unit = "sensor" /\ inv.status = 200)
            /\ (NotHandled \/ Routed) => inv.unit = "router"
            /\ CommittedEnd => inv.unit \in LockUnits
            /\ (inv.unit \in LockUnits /\ Delivered) =>
                  (CommittedEnd \/ (Rejected /\ inv.status = 400)))
    /\ (Running ~> Done)

\* a lock unit whose notification was delivered was rejected at the commit
C17_Witness ==
    /\ inv.unit = "router" /\ Rejected /\ Delivered /\ ~Committed
    /\ inv.calls[Len(inv.calls)] =
         [call |-> "update_function_configuration", outcome |-> "AccessDeniedException"]

\* the order of the authorizer's checks
CheckOrder == <<"iam", "ip", "signature">>

\* a shared secret is configured
SecretConfigured(osenv) ==
    Has(osenv, "WEBHOOK_SECRET") /\ ~Falsy(osenv["WEBHOOK_SECRET"])

\* what each check says about the request on its own
CheckAlone(name) ==
    CASE name = "iam" -> verify_iam_permissions(trial.context, trial.sts)
      [] name = "ip"  -> verify_source_ip(trial.event, ALLOWED_SOURCE_IPS(trial.osenv))
      [] name = "signature" ->
           verify_request_signature(trial.event, trial.osenv["WEBHOOK_SECRET"],
                                    trial.at)

\* C18: the authorizer evaluates caller identity, source IP and signature in
\* this order and stops at the first check that fails; it accepts exactly
\* when every applicable check was evaluated and passed (the signature check
\* applies when a secret is configured).
C18_CheckOrder ==
    (trial.kind = "authz" /\ trial.verdict # "pending") =>
        LET n == Len(trial.checks)
            applicable == IF SecretConfigured(trial.osenv) THEN 3 ELSE 2
        IN  /\ n \in 1..applicable
            /\ \A k \in 1..n :
                 /\ trial.checks[k].check = CheckOrder[k]
                 /\ trial.checks[k].ok = CheckAlone(CheckOrder[k])
                 /\ k < n => trial.checks[k].ok
            /\ n < applicable => ~trial.checks[n].ok
            /\ trial.verdict = "accepted" <=> (n = applicable /\ trial.checks[n].ok)

\* the source-IP check failed and the signature check, which would have
\* failed too, was not evaluated
C18_Witness ==
    /\ trial.kind = "authz" /\ trial.verdict = "rejected"
    /\ SecretConfigured(trial.osenv)
    /\ Len(trial.checks) = 2
    /\ trial.checks[1].ok /\ ~trial.checks[2].ok
    /\ ~CheckAlone("signature")

\* the request lacks a signature or a timestamp header, or its signature is
\* not the one computed from its timestamp and body with the secret
BadlySigned(event, secret_key) ==
    LET headers == Get(event, "headers", EmptyDict)
    IN  \/ ~Has(headers, "X-Signature")
        \/ ~Has(headers, "X-Timestamp")
        \/ headers["X-Signature"] #
             expected_signature(headers["X-Timestamp"], Get(event, "body", <<>>),
                                secret_key)

\* C19: the signature check is run exactly for the requests that passed the
\* identity and source-IP checks while a shared secret is configured.  With
\* a secret, a request without signature header, without timestamp header
\* or with a mismatching signature is rejected; without one, a request that
\* passes the identity and source-IP checks is accepted, signed or not.
C19_SignatureOnlyWithSecret ==
    (trial.kind = "authz" /\ trial.verdict # "pending") =>
        /\ TrialChecked("signature") <=>
             (SecretConfigured(trial.osenv) /\ TrialPassed("iam") /\ TrialPassed("ip"))
        /\ (SecretConfigured(trial.osenv)
              /\ BadlySigned(trial.event, trial.osenv["WEBHOOK_SECRET"]))
             => trial.verdict = "rejected"
        /\ (~SecretConfigured(trial.osenv) /\ CheckAlone("iam") /\ CheckAlone("ip"))
             => trial.verdict = "accepted"

\* without a secret a request carrying no headers at all was accepted
C19_Witness ==
    /\ trial.kind = "authz" /\ trial.verdict = "accepted"
    /\ ~SecretConfigured(trial.osenv)
    /\ ~Has(trial.event, "headers")
    /\ Len(trial.checks) = 2

\* the sensor unit's STS call has returned or raised
SensorStsDone == \E k \in DOMAIN inv.calls : inv.calls[k].call = "sts"

\* the identity check of the sensor unit, from the invocation's context and
\* the STS answer alone
SensorIdentityOk ==
    /\ Has(inv.context, "invoked_function_arn") =>
         StartsWith(inv.context["invoked_function_arn"], LambdaArnPrefix)
    /\ CallOk("sts")
    /\ Has(inv.local, "caller_identity")
    /\ Contains(Get(inv.local["caller_identity"], "Arn", <<>>), SensorRole)

\* C20: in the sensor unit authorization is the caller-identity check alone:
\* its outcome is settled by the invocation's context and the STS answer,
\* whatever source IP, signature or timestamp the event carries and whatever
\* allowlist or secret is configured; a caller whose identity lacks the
\* expected role name is rejected with 403 before any telemetry or webhook
\* call.
C20_ScheduledIdentityOnly ==
    (inv.unit = "sensor" /\ inv.pc # "idle") =>
        /\ inv.auth = "ok" <=> SensorIdentityOk
        /\ inv.auth = "denied" <=> (Done /\ inv.status = 403)
        /\ (SensorStsDone /\ ~SensorIdentityOk) => inv.auth = "denied"
        /\ inv.auth # "ok" =>
             /\ CallNames \subseteq {"sts"}
             /\ ~Delivered
             /\ inv.pc \in {"sts", "done"}

\* an event naming an unlisted source IP with a wrong signature, under a
\* configured allowlist and secret, was authorized on the identity alone
C20_Witness ==
    /\ inv.unit = "sensor" /\ inv.auth = "ok"
    /\ CallerIp(inv.event) = IpC
    /\ inv.event["headers"]["X-Signature"] = <<"garbage">>
    /\ ConfiguredAllowlist(inv.osenv) = {IpA}
    /\ SecretConfigured(inv.osenv)
    /\ Done /\ inv.status = 200 /\ Delivered

(***************************************************************************)
(* The first observation of a device.                                      *)
(***************************************************************************)
\* the unit's validate_event_data accepts the event
EventValid ==
    \/ inv.unit = "bottom" /\ bottom_validate_event_data(inv.event).exc = ""
    \/ inv.unit = "router" /\ router_validate_event_data(inv.event).exc = ""

\* an authorized, valid event of the unit's own device, handled to the end
\* while no KEY_STATE is stored for the unit
FirstObservation ==
    /\ OwnDevice /\ Done
    /\ inv.auth # "denied"
    /\ EventValid
    /\ ~Has(inv.osenv, "KEY_STATE")

\* C21 (as stated): when no state is stored (KEY_STATE absent), every
\* authorized, valid actionable lock event triggers a notification (here
\* even granting a valid configuration and a valid invocation context).
C21_Original ==
    (/\ FirstObservation
     /\ validate_environment_variables(inv.osenv)
     /\ validate_lambda_context(inv.context)) =>
        "post" \in CallNames

\* C21 (amended): when no state is stored (KEY_STATE absent, read as the
\* empty string), an authorized, valid event of a lock unit's own device is
\* never answered as "no state change" (204), because no validated lockState
\* equals the empty default; the webhook POST is made exactly when the
\* configuration and context validation and the permission probe succeed,
\* and otherwise the invocation ends with 400 before the state-change check.
C21_FirstObservationNotDeduped ==
    FirstObservation =>
        /\ inv.status # 204
        /\ Has(inv.local, "current_key_state") =>
             /\ inv.local.current_key_state = <<>>
             /\ inv.local.context_data["lockState"].v # <<>>
        /\ ("post" \in CallNames) <=> CallOk("get_function_configuration")
        /\ "post" \notin CallNames =>
             /\ inv.status = 400
             /\ "dedupe" \notin Range(inv.stages)

\* a first event of the bottom-lock unit was notified and committed
C21_Witness ==
    /\ FirstObservation /\ inv.unit = "bottom"
    /\ inv.status = 200 /\ Delivered
    /\ "dedupe" \in Range(inv.stages)
    /\ env["bottom"]["KEY_STATE"] = <<"unlocked">>

(***************************************************************************)
(* The commit as a merge.                                                  *)
(***************************************************************************)
\* the keys update_function_environment sets
CommitKeys == {"KEY_STATE", "URL", "USER_ID"}

\* a step that changes the stored configuration of some unit
ConfigChanged == env' # env

\* C22: a commit is a merge into the configuration record read at commit
\* time: it changes the record of the invoked function only, every key of
\* that record other than KEY_STATE, URL and USER_ID stays present with its
\* value, no key other than those three is added, and KEY_STATE becomes the
\* lockState of the event.
C22_CommitIsMerge ==
    [][ConfigChanged =>
         LET u == inv.unit
         IN  /\ inv.pc = "commit_write" /\ u \in LockUnits
             /\ \A other \in Units \ {u} : env'[other] = env[other]
             /\ DOMAIN env'[u] = DOMAIN env[u] \cup CommitKeys
             /\ \A k \in DOMAIN env[u] \ CommitKeys : env'[u][k] = env[u][k]
             /\ env'[u]["KEY_STATE"] = SentContext["lockState"].v
             /\ env'[u]["URL"] = inv.osenv["URL"]
             /\ env'[u]["USER_ID"] = inv.osenv["USER_ID"]]_vars

\* a commit of the bottom-lock unit replaced a stored state and kept the
\* allowlist, the shared secret and the time zone of its record
C22_Witness ==
    /\ inv.unit = "bottom" /\ Done /\ Committed
    /\ StoredState = <<"locked">>
    /\ env["bottom"]["KEY_STATE"] = <<"unlocked">>
    /\ env["bottom"]["TZ"] = <<"Asia/Tokyo">>
    /\ Has(inv.osenv, "WEBHOOK_SECRET")
    /\ Has(env["bottom"], "WEBHOOK_SECRET")
    /\ Has(inv.osenv, "ALLOWED_SOURCE_IPS")
    /\ Has(env["bottom"], "ALLOWED_SOURCE_IPS")
    /\ env["bottom"]["ALLOWED_SOURCE_IPS"] = inv.osenv["ALLOWED_SOURCE_IPS"]

(***************************************************************************)
(* KEY_STATE and the notifications delivered.                              *)
(***************************************************************************)
\* the lockState of the notification the invocation delivered last
DeliveredState == inv.posts[Len(inv.posts)].content.lock_state

\* the state stored for a unit now (the empty string if none)
PersistedState(u) == Get(env[u], "KEY_STATE", <<>>)

\* C23 (as stated): once an invocation of a lock unit has delivered a
\* notification and ended, the persisted KEY_STATE equals the lockState of
\* that notification, the most recent one the unit delivered.
C23_Original ==
    (inv.unit \in LockUnits /\ Done /\ Delivered) =>
        PersistedState(inv.unit) = DeliveredState

\* C23 (amended): over non-overlapping invocations the persisted KEY_STATE of
\* a lock unit is the lockState of the most recent delivered notification
\* whose commit succeeded. KEY_STATE changes only in an invocation of that
\* unit that has delivered a notification, and then to the lockState of that
\* notification; an invocation that delivered but whose configuration read
\* or write failed ends with 400 and leaves KEY_STATE as it was, so that
\* KEY_STATE then differs from the last notified state.
C23_KeyStateIsLastCommitted ==
    /\ [](  (inv.unit \in LockUnits /\ Done /\ Delivered) =>
              IF Committed
                THEN PersistedState(inv.unit) = DeliveredState
              ELSE /\ env[inv.unit] = inv.osenv
                   /\ PersistedState(inv.unit) # DeliveredState
                   /\ inv.status = 400 )
    /\ [][ \A u \in LockUnits :
             PersistedState(u)' # PersistedState(u) =>
               /\ inv'.unit = u /\ inv.unit = u
               /\ Len(inv'.posts) > 0 /\ Len(inv'.wrote) > 0
               /\ PersistedState(u)' = DeliveredState' ]_vars

\* a notification was delivered while the stored state stayed behind
C23_Witness ==
    /\ inv.unit = "router" /\ Done /\ Delivered /\ ~Committed
    /\ StoredState = <<"locked">>
    /\ DeliveredState = <<"unlocked">>
    /\ PersistedState("router") = <<"locked">>
    /\ CallFailed({"update_function_configuration"})

(***************************************************************************)
(* The existence probe before the sibling is invoked.                      *)
(***************************************************************************)
TargetProbe == "get_function_configuration(target)"

\* the existence probe of the invocation was answered with an error
TargetProbeFailed == CallFailed({TargetProbe})

HasReadings ==
    /\ inv.unit = "sensor" /\ Has(inv.local, "response_data")
    /\ Has(inv.local["response_data"], "body")
    /\ inv.local["response_data"]["body"].t = "dict"

\* the reading of a field, None if the record has none
Reading(field) == Get(inv.local["response_data"]["body"].v, field, PyNone)

\* temperature or humidity is absent or no number
BadReadings ==
    /\ HasReadings
    /\ \E field \in {"temperature", "humidity"} :
         Reading(field) = PyNone \/ ~FloatParses(Reading(field))

\* C25: in the sensor unit, when temperature or humidity of the device
\* record is absent or not coercible to a number, no webhook POST is made
\* and the invocation is rejected as a validation failure, that is with
\* status 400.
C25_BadReadingsRejected ==
    (Done /\ BadReadings) =>
        /\ "post" \notin CallNames /\ ~Delivered
        /\ inv.status = 400

(***************************************************************************)
(* The source IP: requestContext before X-Forwarded-For.                   *)
(***************************************************************************)
\* the source IP of the request context (the empty string if there is none)
RequestContextIp(event) ==
    IF /\ Has(event, "requestContext")
       /\ Has(event["requestContext"], "identity")
       /\ Has(event["requestContext"]["identity"], "sourceIp")
      THEN event["requestContext"]["identity"]["sourceIp"] ELSE <<>>

\* the first entry of the X-Forwarded-For header, stripped (the empty string
\* if there is none)
ForwardedForIp(event) ==
    IF Has(event, "headers") /\ Has(event["headers"], "X-Forwarded-For")
      THEN Strip(event["headers"]["X-Forwarded-For"][1]) ELSE <<>>

\* C26: when an IP allowlist is configured and the source-IP check is
\* reached, a request whose request context carries a non-empty source IP
\* passes the check exactly when that IP is in the allowlist, whatever its
\* X-Forwarded-For header says; the first X-Forwarded-For entry decides only
\* when the request context carries no source IP.
C26_RequestContextIpFirst ==
    (/\ trial.kind = "authz" /\ trial.verdict # "pending"
     /\ ConfiguredAllowlist(trial.osenv) # {}
     /\ TrialChecked("ip")) =>
        LET allowlist == ConfiguredAllowlist(trial.osenv)
            rc_ip     == RequestContextIp(trial.event)
            fwd_ip    == ForwardedForIp(trial.event)
        IN  /\ rc_ip # <<>> => (TrialPassed("ip") <=> rc_ip \in allowlist)
            /\ rc_ip = <<>> =>
                 (TrialPassed("ip") <=> (fwd_ip # <<>> /\ fwd_ip \in allowlist))

\* a request from an unlisted request-context IP that names a listed IP in
\* X-Forwarded-For was rejected at the source-IP check
C26_Witness ==
    /\ trial.kind = "authz" /\ trial.verdict = "rejected"
    /\ ConfiguredAllowlist(trial.osenv) = {IpA}
    /\ RequestContextIp(trial.event) = IpC
    /\ ForwardedForIp(trial.event) = IpA
    /\ TrialChecked("ip") /\ ~TrialPassed("ip")

(***************************************************************************)
(* The forwarded payload and the bottom-lock unit's authorization.         *)
(***************************************************************************)
\* the invocation of the bottom-lock unit handles a payload of the router
FromRouter == inv.unit = "bottom" /\ inv.origin = "router"

\* the bottom-lock unit checks the source IP or the signature of requests
TransportChecked(osenv) ==
    ConfiguredAllowlist(osenv) # {} \/ SecretConfigured(osenv)

\* C27: the payload the router forwards for a WoLock event has the single
\* field context, without headers and without requestContext; whenever the
\* bottom-lock unit has a non-empty IP allowlist or a shared secret
\* configured, every forwarded event is rejected by its authorization (403),
\* makes no webhook call and no commit, and the router had answered 200 when
\* the payload was handed over.
C27_ForwardedRejected ==
    /\ [](  FromRouter =>
              /\ DOMAIN inv.event = {"context"}
              /\ inv.event["context"].v["deviceType"].v = "WoLock"
              /\ TransportChecked(inv.osenv) =>
                   /\ inv.pc \in {"sts", "done"}
                   /\ inv.auth # "ok"
                   /\ "post" \notin CallNames /\ ~Delivered /\ ~Committed
                   /\ env["bottom"] = inv.osenv
                   /\ Done => (inv.status = 403 /\ inv.auth = "denied") )
    /\ [][ Len(queue') > Len(queue) =>
             /\ inv'.unit = "router" /\ inv'.pc = "done" /\ inv'.status = 200
             /\ queue' = Append(queue, [context |-> PyDict(SentContext)]) ]_vars

\* a forwarded payload, handled under the expected role by a bottom-lock unit
\* that has only an allowlist configured, was answered 403
C27_Witness ==
    /\ FromRouter /\ Done /\ inv.status = 403
    /\ ConfiguredAllowlist(inv.osenv) = {IpA} /\ ~SecretConfigured(inv.osenv)
    /\ Has(inv.local, "caller_identity")
    /\ Contains(Get(inv.local["caller_identity"], "Arn", <<>>), BottomRole)
    /\ ~lock_fields_error(inv.event["context"].v)

(***************************************************************************)
(* A delivery whose commit failed, and the next event.                     *)
(***************************************************************************)
\* the invocation of process p delivered its notification and ended without
\* a commit: the configuration read or write after the POST failed
RaceCommitFailed(p) ==
    /\ trial.procs[p].pc = "done"
    /\ Len(trial.procs[p].posts) = 1
    /\ ~RaceCommitted(p)

\* the invocation of process q began after the one of process p had ended
RaceNextAfter(p, q) == p # q /\ p \in trial.after[q]

RaceCallOk(p, name) ==
    \E k \in DOMAIN trial.procs[p].calls :
        trial.procs[p].calls[k] = [call |-> name, outcome |-> "ok"]

\* C28: in a lock unit, when the webhook delivery of an invocation succeeds
\* and the configuration write that follows fails, the invocation responds
\* 400 and the stored state keeps its old value; the next invocation reads
\* that old value, so an authorized valid event with the same lockState is
\* not deduped: once its permission probe succeeds the webhook POST is made
\* again, and when that succeeds the same notification has been delivered
\* twice.
C28_NotifiedAgain ==
    \A p \in Procs, q \in Procs :
        (RaceCommitFailed(p) /\ RaceNextAfter(p, q)) =>
            LET first == trial.procs[p]
                next  == trial.procs[q]
            IN  /\ first.status = 400
                /\ first.body = [error |-> "invalid request data"]
                /\ next.osenv = first.osenv
                /\ ~RaceCommitted(q) => env[trial.unit] = first.osenv
                /\ Get(next.osenv, "KEY_STATE", <<>>) # first.posts[1].content.lock_state
                /\ (/\ RaceCallOk(q, "get_function_configuration")
                    /\ RaceLockState(q) = RaceLockState(p)) =>
                       /\ next.status # 204
                       /\ "dispatch" \in Range(next.stages)
                       /\ next.pc = "done" =>
                            \E k \in DOMAIN next.calls : next.calls[k].call = "post"
                       /\ RaceCallOk(q, "post") => next.posts = first.posts

\* the bottom-lock unit delivered "locked", failed to write it, and notified
\* "locked" again for the next event
C28_Witness ==
    /\ trial.unit = "bottom"
    /\ RaceCommitFailed("a") /\ RaceNextAfter("a", "b")
    /\ trial.procs["a"].calls[Len(trial.procs["a"].calls)] =
         [call |-> "update_function_configuration", outcome |-> "AccessDeniedException"]
    /\ RaceLockState("a") = <<"locked">>
    /\ trial.procs["b"].pc = "done" /\ trial.procs["b"].status = 200
    /\ RaceLockState("b") = <<"locked">>
    /\ trial.procs["b"].posts = trial.procs["a"].posts
    /\ env["bottom"]["KEY_STATE"] = <<"locked">>

(***************************************************************************)
(* The persisted state of one unit and the other units.                    *)
(***************************************************************************)
\* C29: a commit is written to the configuration record of the invoked
\* function of the committing lock unit and to no other record; while the
\* router handles a WoLock or WoHub2 event its record stays as it was; the
\* sensor unit writes no record at all; and the router's KEY_STATE changes
\* only in an invocation of the router that delivered the notification of a
\* WoLockPro event.
C29_StateIsolation ==
    /\ [](  /\ inv.unit = "sensor" => ~Committed
            /\ (inv.unit = "router" /\ SentDeviceType \in {"WoLock", "WoHub2"}) =>
                 /\ ~Committed /\ ~Delivered
                 /\ inv.pc \notin {"post", "commit_read", "commit_write"}
                 /\ env["router"] = inv.osenv )
    /\ [][ \A u \in Units :
             env'[u] # env[u] =>
               /\ inv.unit = u /\ u \in LockUnits
               /\ inv.pc = "commit_write"
               /\ FunctionOf(inv.context["invoked_function_arn"]) = u
               /\ Delivered
               /\ u = "router" => SentDeviceType = "WoLockPro" ]_vars

\* a WoLock event went through the router to the bottom-lock unit, which
\* delivered and committed it; the router's record has no KEY_STATE
C29_Witness ==
    /\ FromRouter /\ Done /\ Delivered /\ Committed
    /\ env["bottom"]["KEY_STATE"] = <<"locked">>
    /\ ~Has(env["router"], "KEY_STATE")
    /\ env["router"] = LockEnv(GoodUrl)

====
